---- MODULE Spec2Model ----
(***************************************************************************)
(* Model of the AIOps root-cause engines of this repository:               *)
(*   - LogicalRCA                (inference_engine.py)                     *)
(*   - CausalInferenceEngine,                                              *)
(*     simulate_cascade_failure  (logic.py)                                *)
(*   - BayesianRCA               (bayes_engine.py)                         *)
(*                                                                         *)
(* Conventions                                                             *)
(*   - Python strings are sequences of one-character strings, so that the  *)
(*     "kw in text" tests of the code are real substring searches.         *)
(*   - Python dicts (insertion ordered) are sequences of [k, v] records.   *)
(*   - Probabilities are integers in percent (0.8 is 80, 0.05 is 5).       *)
(*   - Device ids are 1..n in the insertion order of the topology dict;    *)
(*     NoParent (0) is the falsy parent_id (None / "").                    *)
(***************************************************************************)
EXTENDS Integers, Sequences, FiniteSets, TLC

VARIABLES
    topology,          \* LogicalRCA.topology / CausalInferenceEngine.topology: id -> node record
    children_map,      \* LogicalRCA.children_map, built by __init__
    GOOGLE_API_KEY,    \* os.environ has GOOGLE_API_KEY
    api_configured,    \* LogicalRCA._api_configured
    alarms,            \* the alarm list of the current cycle
    results,           \* return value of the last LogicalRCA.analyze on `alarms` (<<>> before the first call)
    analyze_calls,     \* number of LogicalRCA.analyze calls made on `alarms`
    inference,         \* return value of the last CausalInferenceEngine.analyze_alarms on `alarms`
    cascade,           \* return value of the last simulate_cascade_failure
    evidence,          \* BayesianRCA.evidence
    ranking,           \* return value of BayesianRCA.get_ranking on `evidence` (<<>> when not called since the last update)
    last_update,       \* the last pair passed to BayesianRCA.update_probabilities, with the ranking before it
    validation,        \* outcome of the last validate_topology(topology)
    session_state,     \* app.py: st.session_state of every browser session, with the locals of its page run
    topology_mtime,    \* modification time of the topology file of every tenant/network
    evidence_iter      \* iteration order of BayesianRCA.evidence (a CPython set), where the floating-point specification follows it

vars == <<topology, children_map, GOOGLE_API_KEY, api_configured, alarms, results,
          analyze_calls, inference, cascade, evidence, ranking, last_update, validation,
          session_state, topology_mtime, evidence_iter>>

(***************************************************************************)
(* Bounds of the model                                                     *)
(***************************************************************************)
MaxDev == 2          \* devices in a topology of the general specification
MaxAlarms == 2       \* alarms per cycle in the general specification
SilentMaxDev == 6    \* devices in a topology of the silent-failure specification
SilentMaxAlarms == 4 \* alarms per cycle in the silent-failure specification
HaMaxDev == 2        \* devices in a topology of the redundancy specification
HaMaxAlarms == 2     \* alarms per cycle in the redundancy specification
CascadeMaxDev == 4   \* devices in a topology of the cascade specification
MaxEvidence == 3     \* evidence pairs accumulated in one BayesianRCA session
MaxCalls == 2        \* analyze calls on one alarm list in the general specification
OutMaxDev == 3       \* devices in a topology of the output specification
OutMaxAlarms == 2    \* alarms per cycle in the output specification
ValMaxDev == 2       \* devices in a topology of the validation specification
ValMaxAlarms == 2    \* alarms per cycle in the validation specification
ChainMaxDev == 4     \* devices in a topology of the cascade-then-analyse specification
HwMaxDev == 1        \* devices in a topology of the hardware specification
HwMaxAlarms == 3     \* alarms per cycle in the hardware specification
ShapeMaxDev == 6      \* devices in a topology of the node-representation specification
ShapeMaxAlarms == 3   \* alarms per cycle in the node-representation specification
MaxSessions == 2      \* browser sessions in the multi-tenant specification
PsuMaxAlarms == 2     \* alarms per cycle in the power-supply specification
FloatMaxEvidence == 5 \* evidence pairs accumulated in one session of the floating-point specification
MaxMessages == 2      \* chat messages of one session in the cockpit specification
MaxMtime == 2         \* rewrites of one topology file, counted from 1, in the hot-reload specification

NoParent == 0

(***************************************************************************)
(* Strings                                                                 *)
(***************************************************************************)
str_Connection_Lost == <<"C","o","n","n","e","c","t","i","o","n"," ","L","o","s","t">>
str_Link_Down == <<"L","i","n","k"," ","D","o","w","n">>
str_Port_Down == <<"P","o","r","t"," ","D","o","w","n">>
str_Unreachable == <<"U","n","r","e","a","c","h","a","b","l","e">>
str_Power_Supply_Dual_Loss == <<"P","o","w","e","r"," ","S","u","p","p","l","y",":"," ","D","u","a","l"," ","L","o","s","s">>
str_Dual_Loss == <<"D","u","a","l"," ","L","o","s","s">>
str_Device_Down == <<"D","e","v","i","c","e"," ","D","o","w","n">>
str_Thermal_Shutdown == <<"T","h","e","r","m","a","l"," ","S","h","u","t","d","o","w","n">>
str_Power_Supply == <<"P","o","w","e","r"," ","S","u","p","p","l","y">>
str_Failed == <<"F","a","i","l","e","d">>
str_Dual == <<"D","u","a","l">>
str_PSU == <<"P","S","U">>
str_Fail == <<"F","a","i","l">>
str_Fan_Fail == <<"F","a","n"," ","F","a","i","l">>
str_FAN == <<"F","A","N">>
str_Fan == <<"F","a","n">>
str_High_Temperature == <<"H","i","g","h"," ","T","e","m","p","e","r","a","t","u","r","e">>
str_Overheat == <<"O","v","e","r","h","e","a","t">>
str_Thermal == <<"T","h","e","r","m","a","l">>
str_Memory_High == <<"M","e","m","o","r","y"," ","H","i","g","h">>
str_Memory_Leak == <<"M","e","m","o","r","y"," ","L","e","a","k">>
str_memory == <<"m","e","m","o","r","y">>
str_leak == <<"l","e","a","k">>
str_high == <<"h","i","g","h">>
str_Out_of_memory == <<"O","u","t"," ","o","f"," ","m","e","m","o","r","y">>
str_OOM == <<"O","O","M">>
str_killed_process == <<"k","i","l","l","e","d"," ","p","r","o","c","e","s","s">>
str_kernel_panic == <<"k","e","r","n","e","l"," ","p","a","n","i","c">>
str_API_key_not_configured == <<"A","P","I"," ","k","e","y"," ","n","o","t"," ","c","o","n","f","i","g","u","r","e","d">>
str_Heartbeat_Loss == <<"H","e","a","r","t","b","e","a","t"," ","L","o","s","s">>
str_Power_Supply_Dual_Loss_Device_Down == <<"P","o","w","e","r"," ","S","u","p","p","l","y",":"," ","D","u","a","l"," ","L","o","s","s"," ","(","D","e","v","i","c","e"," ","D","o","w","n",")">>
str_Power_Supply_1_Failed == <<"P","o","w","e","r"," ","S","u","p","p","l","y"," ","1"," ","F","a","i","l","e","d">>
str_Fan_Module_Failed == <<"F","a","n"," ","M","o","d","u","l","e"," ","F","a","i","l","e","d">>
str_Interface_Down == <<"I","n","t","e","r","f","a","c","e"," ","D","o","w","n">>
str_Silent_Failure_Suspected_Derived_from_child_Connection_Lost == <<"S","i","l","e","n","t"," ","F","a","i","l","u","r","e"," ","S","u","s","p","e","c","t","e","d"," ","(","D","e","r","i","v","e","d"," ","f","r","o","m"," ","c","h","i","l","d"," ","C","o","n","n","e","c","t","i","o","n"," ","L","o","s","t",")">>
str_password == <<"p","a","s","s","w","o","r","d">>
str_secret == <<"s","e","c","r","e","t">>
str_snmp_server_community == <<"s","n","m","p","-","s","e","r","v","e","r"," ","c","o","m","m","u","n","i","t","y">>
str_SPACE == <<" ">>

\* str.lower() on the letters that occur in the modelled texts
Upper == <<"A","B","C","D","E","F","G","H","I","J","K","L","M","N","O","P","Q","R","S","T","U","V","W","X","Y","Z">>
LowerOf == <<"a","b","c","d","e","f","g","h","i","j","k","l","m","n","o","p","q","r","s","t","u","v","w","x","y","z">>

LowerChar(c) ==
    IF \E i \in 1..26 : Upper[i] = c
    THEN LowerOf[CHOOSE i \in 1..26 : Upper[i] = c]
    ELSE c

lower(s) == [i \in 1..Len(s) |-> LowerChar(s[i])]

\* Python `kw in text`
In(kw, text) ==
    \E i \in 0..(Len(text) - Len(kw)) :
        \A j \in 1..Len(kw) : text[i + j] = kw[j]

\* Python `" ".join(parts)`
RECURSIVE join(_)
join(parts) ==
    IF Len(parts) = 0 THEN <<>>
    ELSE IF Len(parts) = 1 THEN parts[1]
    ELSE parts[1] \o str_SPACE \o join(Tail(parts))

(***************************************************************************)
(* Ordered dict helpers (dict.setdefault(k, []).append(v), dict.get, `in`) *)
(***************************************************************************)
Keys(od) == {od[i].k : i \in 1..Len(od)}

Get(od, key, default) ==
    IF key \in Keys(od)
    THEN od[CHOOSE i \in 1..Len(od) : od[i].k = key].v
    ELSE default

SetDefaultAppend(od, key, val) ==
    IF key \in Keys(od)
    THEN [i \in 1..Len(od) |-> IF od[i].k = key
                                THEN [k |-> key, v |-> Append(od[i].v, val)]
                                ELSE od[i]]
    ELSE Append(od, [k |-> key, v |-> <<val>>])

reason_no_alerts == <<"N","o"," ","a","c","t","i","v","e"," ","a","l","e","r","t","s"," ","d","e","t","e","c","t","e","d",".">>
reason_hard_down == <<"D","e","v","i","c","e"," ","d","o","w","n"," ","/"," ","d","u","a","l"," ","P","S","U"," ","l","o","s","s"," ","/"," ","t","h","e","r","m","a","l"," ","s","h","u","t","d","o","w","n"," ","d","e","t","e","c","t","e","d"," ","(","l","o","c","a","l"," ","s","a","f","e","t","y"," ","r","u","l","e",")",".">>
reason_psu_redundant == <<"S","i","n","g","l","e"," ","P","S","U"," ","f","a","i","l","u","r","e"," ","w","i","t","h"," ","r","e","d","u","n","d","a","n","c","y"," ","(","l","o","c","a","l"," ","s","a","f","e","t","y"," ","r","u","l","e",")",".">>
reason_psu_single == <<"S","i","n","g","l","e"," ","P","S","U"," ","f","a","i","l","u","r","e"," ","w","i","t","h","o","u","t"," ","r","e","d","u","n","d","a","n","c","y"," ","(","l","o","c","a","l"," ","s","a","f","e","t","y"," ","r","u","l","e",")",".">>
reason_fan_overheat == <<"F","a","n"," ","f","a","i","l","u","r","e"," ","w","i","t","h"," ","o","v","e","r","h","e","a","t","/","t","h","e","r","m","a","l"," ","s","y","m","p","t","o","m"," ","d","e","t","e","c","t","e","d"," ","(","l","o","c","a","l"," ","s","a","f","e","t","y"," ","r","u","l","e",")",".">>
reason_fan == <<"F","a","n"," ","f","a","i","l","u","r","e"," ","d","e","t","e","c","t","e","d","."," ","S","e","r","v","i","c","e"," ","l","i","k","e","l","y"," ","c","o","n","t","i","n","u","e","s"," ","b","u","t"," ","r","i","s","k"," ","o","f"," ","t","h","e","r","m","a","l"," ","e","s","c","a","l","a","t","i","o","n"," ","(","l","o","c","a","l"," ","s","a","f","e","t","y"," ","r","u","l","e",")",".">>
reason_mem_oom == <<"M","e","m","o","r","y"," ","l","e","a","k","/","h","i","g","h"," ","w","i","t","h"," ","O","O","M","/","c","r","a","s","h"," ","s","y","m","p","t","o","m"," ","d","e","t","e","c","t","e","d"," ","(","l","o","c","a","l"," ","s","a","f","e","t","y"," ","r","u","l","e",")",".">>
reason_mem == <<"M","e","m","o","r","y"," ","h","i","g","h","/","l","e","a","k"," ","s","y","m","p","t","o","m"," ","d","e","t","e","c","t","e","d","."," ","L","i","k","e","l","y"," ","d","e","g","r","a","d","e","d"," ","b","u","t"," ","n","o","t"," ","d","o","w","n"," ","y","e","t"," ","(","l","o","c","a","l"," ","s","a","f","e","t","y"," ","r","u","l","e",")",".">>
reason_no_key == <<"A","P","I"," ","k","e","y"," ","n","o","t"," ","c","o","n","f","i","g","u","r","e","d","."," ","M","a","n","u","a","l"," ","a","n","a","l","y","s","i","s"," ","r","e","q","u","i","r","e","d",".">>
reason_ai_failed == <<"A","I"," ","A","n","a","l","y","s","i","s"," ","F","a","i","l","e","d">>
reason_llm == <<"R","e","d","u","n","d","a","n","t"," ","p","e","e","r"," ","k","e","e","p","s"," ","t","h","e"," ","s","e","r","v","i","c","e"," ","u","p",".">>
str_masked == <<"*","*","*","*","*","*","*","*">>
str_encrypted_password == <<"e","n","c","r","y","p","t","e","d","-","p","a","s","s","w","o","r","d">>
str_HA_Failover == <<"H","A"," ","F","a","i","l","o","v","e","r">>
str_Power_Fail == <<"P","o","w","e","r"," ","F","a","i","l">>
str_NG == <<"N","G">>
str_System_Overheat == <<"S","y","s","t","e","m"," ","O","v","e","r","h","e","a","t">>
str_BGP_Flapping == <<"B","G","P"," ","F","l","a","p","p","i","n","g">>
str_Config_Error == <<"C","o","n","f","i","g"," ","E","r","r","o","r">>
str_System_Warning == <<"S","y","s","t","e","m"," ","W","a","r","n","i","n","g">>
str_Link_Flap == <<"L","i","n","k"," ","F","l","a","p">>
str_Temperature_Critical == <<"T","e","m","p","e","r","a","t","u","r","e"," ","C","r","i","t","i","c","a","l">>

(***************************************************************************)
(* Topology nodes                                                          *)
(*   id, parent_id, layer, redundancy_group : NetworkNode fields           *)
(*   psu_count       : metadata.hw_inventory.psu_count, 0 when absent      *)
(*   redundancy_type : metadata.redundancy_type, "" when absent            *)
(*   is_dict         : the node is a dict record (isinstance(info, dict)), *)
(*                     otherwise an attribute-style NetworkNode object     *)
(***************************************************************************)
NoGroup == ""

Node(id, parent, layer, group) ==
    [id |-> id, parent_id |-> parent, layer |-> layer, redundancy_group |-> group,
     psu_count |-> 0, redundancy_type |-> "", is_dict |-> TRUE]

Ids(topo) == DOMAIN topo

\* LogicalRCA.__init__: parent -> [children...] over the dict records, in topology order
RECURSIVE BuildChildrenMap(_, _, _)
BuildChildrenMap(topo, i, acc) ==
    IF i > Len(topo) THEN acc
    ELSE LET info == topo[i]
             p == info.parent_id
         IN  BuildChildrenMap(topo, i + 1,
                 IF info.is_dict /\ p # NoParent THEN SetDefaultAppend(acc, p, i) ELSE acc)

LogicalRCA_init(topo) == BuildChildrenMap(topo, 1, <<>>)

\* LogicalRCA._get_parent_id (None is NoParent); unknown devices resolve to {}
_get_parent_id(device_id) ==
    IF device_id \in Ids(topology) THEN topology[device_id].parent_id ELSE NoParent

\* variant of _get_psu_count that ignores metadata.redundancy_type
_get_psu_count_InventoryOnly(device_id, default) ==
    IF device_id \notin Ids(topology) THEN default
    ELSE LET md == topology[device_id]
         IN  IF md.psu_count # 0 THEN md.psu_count ELSE default

\* LogicalRCA._get_psu_count
_get_psu_count(device_id, default) ==
    IF device_id \notin Ids(topology) THEN default
    ELSE LET md == topology[device_id]
         IN  IF md.psu_count # 0 THEN md.psu_count
             ELSE IF md.redundancy_type = "PSU" THEN 2
             ELSE default

\* variant of _ensure_api_configured that marks the engine configured before
\* it looks for the key
_ensure_api_configured_FlagFirst(flag, genai_ok) ==
    IF flag THEN [ret |-> TRUE, flag |-> TRUE]
    ELSE IF ~GOOGLE_API_KEY THEN [ret |-> FALSE, flag |-> TRUE]
    ELSE IF genai_ok THEN [ret |-> TRUE, flag |-> TRUE]
    ELSE [ret |-> FALSE, flag |-> TRUE]

\* LogicalRCA._ensure_api_configured: the value returned and the flag left behind.
\* genai_ok is whether genai.configure / GenerativeModel succeed.
_ensure_api_configured(flag, genai_ok) ==
    IF flag THEN [ret |-> TRUE, flag |-> TRUE]
    ELSE IF ~GOOGLE_API_KEY THEN [ret |-> FALSE, flag |-> FALSE]
    ELSE IF genai_ok THEN [ret |-> TRUE, flag |-> TRUE]
    ELSE [ret |-> FALSE, flag |-> FALSE]

\* LogicalRCA._sanitize_text: every pattern needs "password", "secret" or
\* "snmp-server community" in the text; the masked text is the text cut at
\* the first of them followed by the mask.
HasSecret(text) ==
    In(str_password, text) \/ In(str_secret, text) \/ In(str_snmp_server_community, text)

SecretAt(text) ==
    CHOOSE i \in 0..Len(text) :
        /\ \E kw \in {str_password, str_secret, str_snmp_server_community} :
               /\ i + Len(kw) <= Len(text)
               /\ \A j \in 1..Len(kw) : text[i + j] = kw[j]
        /\ \A h \in 0..(i - 1) :
               ~\E kw \in {str_password, str_secret, str_snmp_server_community} :
                   /\ h + Len(kw) <= Len(text)
                   /\ \A j \in 1..Len(kw) : text[h + j] = kw[j]

_sanitize_text(text) ==
    IF HasSecret(text) THEN SubSeq(text, 1, SecretAt(text)) \o str_masked ELSE text

\* variant of _is_connection_loss that misses "Connection Lost"
_is_connection_loss_NoConnectionLost(msg) ==
    In(str_Link_Down, msg) \/ In(str_Port_Down, msg) \/ In(str_Unreachable, msg)

\* LogicalRCA._is_connection_loss
_is_connection_loss(msg) ==
    In(str_Connection_Lost, msg) \/ In(str_Link_Down, msg) \/ In(str_Port_Down, msg) \/ In(str_Unreachable, msg)

AnyMsg(msgs, Test(_)) == \E i \in 1..Len(msgs) : Test(msgs[i])

(***************************************************************************)
(* LogicalRCA tunables (class attributes)                                  *)
(***************************************************************************)
SILENT_MIN_CHILDREN == 2
SILENT_RATIO == 50

\* LogicalRCA._detect_silent_failures: ordered dict parent -> affected children
RECURSIVE DetectLoop(_, _, _)
DetectLoop(msg_map, i, suspects) ==
    IF i > Len(children_map) THEN suspects
    ELSE LET parent_id == children_map[i].k
             children == children_map[i].v
             IsAffected(c) == AnyMsg(Get(msg_map, c, <<>>), _is_connection_loss)
             affected == SelectSeq(children, IsAffected)
             total == Len(children)
             maxtotal == IF total > 1 THEN total ELSE 1
         IN  IF Len(children) = 0 \/ parent_id \in Keys(msg_map) \/ Len(affected) = 0
             THEN DetectLoop(msg_map, i + 1, suspects)
             ELSE IF /\ Len(affected) >= SILENT_MIN_CHILDREN
                     /\ Len(affected) * 100 >= SILENT_RATIO * maxtotal
                  THEN DetectLoop(msg_map, i + 1,
                           Append(suspects, [k |-> parent_id,
                                             v |-> [children |-> affected,
                                                    evidence_count |-> Len(affected),
                                                    total_children |-> total]]))
                  ELSE DetectLoop(msg_map, i + 1, suspects)

_detect_silent_failures(msg_map) == DetectLoop(msg_map, 1, <<>>)

(***************************************************************************)
(* LogicalRCA.analyze_redundancy_depth                                     *)
(*   flag     : _api_configured on entry                                   *)
(*   genai_ok : outcome of the API configuration, when it is attempted     *)
(*   reply    : what the LLM call produces for this device                 *)
(* Returns the analysis dict and the flag left behind.                     *)
(***************************************************************************)
LLMReplies ==
    { [kind |-> "json", status |-> "NORMAL", impact_type |-> "NONE"],
      [kind |-> "json", status |-> "WARNING", impact_type |-> "REDUNDANCY_LOST"],
      [kind |-> "json", status |-> "CRITICAL", impact_type |-> "OUTAGE"],
      [kind |-> "exception", status |-> "", impact_type |-> ""] }

Analysis(status, reason, impact_type, flag) ==
    [status |-> status, reason |-> reason, impact_type |-> impact_type, flag |-> flag]

analyze_redundancy_depth(device_id, alerts, flag, genai_ok, reply) ==
    IF Len(alerts) = 0 THEN Analysis("NORMAL", reason_no_alerts, "NONE", flag)
    ELSE
    LET safe_alerts == [i \in 1..Len(alerts) |-> _sanitize_text(alerts[i])]
        joined == join(safe_alerts)
        psu_count == _get_psu_count(device_id, 1)
        psu_single_fail ==
            \/ In(str_Power_Supply, joined) /\ In(str_Failed, joined) /\ ~In(str_Dual, joined)
            \/ In(str_PSU, joined) /\ In(str_Fail, joined) /\ ~In(str_Dual, joined)
        fan_fail ==
            \/ In(str_Fan_Fail, joined)
            \/ In(str_FAN, joined) /\ In(str_Fail, joined)
            \/ In(str_Fan, joined) /\ In(str_Fail, joined)
        overheat_hint ==
            In(str_High_Temperature, joined) \/ In(str_Overheat, joined) \/ In(str_Thermal, joined)
        joined_lower == lower(joined)
        mem_symptom ==
            \/ In(str_Memory_High, joined)
            \/ In(str_Memory_Leak, joined)
            \/ In(str_memory, joined_lower) /\ (In(str_leak, joined_lower) \/ In(str_high, joined_lower))
        oom_hint ==
            \/ In(str_Out_of_memory, joined)
            \/ In(str_OOM, joined)
            \/ In(str_killed_process, joined_lower)
            \/ In(str_kernel_panic, joined_lower)
        ensured == _ensure_api_configured(flag, genai_ok)
    IN  IF \/ In(str_Power_Supply_Dual_Loss, joined) \/ In(str_Dual_Loss, joined)
           \/ In(str_Device_Down, joined) \/ In(str_Thermal_Shutdown, joined)
        THEN Analysis("CRITICAL", reason_hard_down, "Hardware/Physical", flag)
        ELSE IF psu_single_fail
        THEN IF psu_count >= 2
             THEN Analysis("WARNING", reason_psu_redundant, "Hardware/Redundancy", flag)
             ELSE Analysis("CRITICAL", reason_psu_single, "Hardware/Physical", flag)
        ELSE IF fan_fail
        THEN IF overheat_hint
             THEN Analysis("CRITICAL", reason_fan_overheat, "Hardware/Physical", flag)
             ELSE Analysis("WARNING", reason_fan, "Hardware/Degraded", flag)
        ELSE IF mem_symptom
        THEN IF oom_hint
             THEN Analysis("CRITICAL", reason_mem_oom, "Software/Resource", flag)
             ELSE Analysis("WARNING", reason_mem, "Software/Resource", flag)
        ELSE IF ~ensured.ret
        THEN Analysis("WARNING", reason_no_key, "UNKNOWN", ensured.flag)
        ELSE IF reply.kind = "exception"
        THEN Analysis("WARNING", reason_ai_failed, "AI_ERROR", ensured.flag)
        ELSE Analysis(IF reply.status \in {"GREEN", "NORMAL"} THEN "NORMAL"
                      ELSE IF reply.status \in {"YELLOW", "WARNING"} THEN "WARNING"
                      ELSE "CRITICAL",
                      reason_llm, reply.impact_type, ensured.flag)

(***************************************************************************)
(* LogicalRCA.analyze                                                      *)
(* Candidates carry id, prob, type and tier; label and reason are texts    *)
(* derived from the same messages and are left out.                        *)
(***************************************************************************)
Candidate(id, prob, type, tier) == [id |-> id, prob |-> prob, type |-> type, tier |-> tier]

\* id of the sentinel candidate ("SYSTEM"), not a device
SYSTEM == 0

\* variant of msg_map that opens a new entry for every alarm
RECURSIVE BuildMsgMap_NoMerge(_, _, _)
BuildMsgMap_NoMerge(as, i, acc) ==
    IF i > Len(as) THEN acc
    ELSE BuildMsgMap_NoMerge(as, i + 1, Append(acc, [k |-> as[i].device_id, v |-> <<as[i].message>>]))

\* msg_map: device_id -> [messages...], in order of first appearance
RECURSIVE BuildMsgMap(_, _, _)
BuildMsgMap(as, i, acc) ==
    IF i > Len(as) THEN acc
    ELSE BuildMsgMap(as, i + 1, SetDefaultAppend(acc, as[i].device_id, as[i].message))

\* silent suspects are added to msg_map with a derived pseudo alarm
RECURSIVE AddSuspects(_, _, _)
AddSuspects(msg_map, suspects, i) ==
    IF i > Len(suspects) THEN msg_map
    ELSE AddSuspects(SetDefaultAppend(msg_map, suspects[i].k,
                         str_Silent_Failure_Suspected_Derived_from_child_Connection_Lost),
                     suspects, i + 1)

\* variant of the sort that puts a candidate before those of equal prob
RECURSIVE InsertByProb_Unstable(_, _)
InsertByProb_Unstable(sorted, c) ==
    IF Len(sorted) = 0 THEN <<c>>
    ELSE IF sorted[Len(sorted)].prob > c.prob THEN Append(sorted, c)
    ELSE Append(InsertByProb_Unstable(SubSeq(sorted, 1, Len(sorted) - 1), c), sorted[Len(sorted)])

\* list.sort(key=prob, reverse=True): stable, equal probs keep their order
RECURSIVE InsertByProb(_, _)
InsertByProb(sorted, c) ==
    IF Len(sorted) = 0 THEN <<c>>
    ELSE IF sorted[Len(sorted)].prob >= c.prob THEN Append(sorted, c)
    ELSE Append(InsertByProb(SubSeq(sorted, 1, Len(sorted) - 1), c), sorted[Len(sorted)])

RECURSIVE SortByProbDesc(_, _, _)
SortByProbDesc(list, i, acc) ==
    IF i > Len(list) THEN acc
    ELSE SortByProbDesc(list, i + 1, InsertByProb(acc, list[i]))

\* variant of the test that never recognises an unreachable child
IsUnreachable_Never(m) == FALSE

IsUnreachable(m) == In(str_Unreachable, m)

\* variant of the iteration that rates a device left undecided without a key
\* above every other candidate
ClassifyDevice_UnknownOnTop(device_id, messages, msg_map, silent_suspects, flag, genai_ok, reply) ==
    LET p == _get_parent_id(device_id)
        alarmed_ids == Keys(msg_map)
        parent_is_alarmed == p # NoParent /\ p \in alarmed_ids
        parent_is_silent_suspect == p # NoParent /\ p \in Keys(silent_suspects)
        analysis == analyze_redundancy_depth(device_id, messages, flag, genai_ok, reply)
    IN  IF parent_is_silent_suspect /\ AnyMsg(messages, _is_connection_loss)
        THEN [cand |-> Candidate(device_id, 40, "Network/ConnectionLost", 3), flag |-> flag]
        ELSE IF AnyMsg(messages, IsUnreachable) /\ parent_is_alarmed
        THEN [cand |-> Candidate(device_id, 20, "Network/Unreachable", 3), flag |-> flag]
        ELSE IF device_id \in Keys(silent_suspects)
        THEN [cand |-> Candidate(device_id, 80, "Network/SilentFailure", 1), flag |-> analysis.flag]
        ELSE IF analysis.impact_type = "UNKNOWN" /\ In(str_API_key_not_configured, analysis.reason)
        THEN [cand |-> Candidate(device_id, 95, analysis.impact_type, 3), flag |-> analysis.flag]
        ELSE IF analysis.status = "CRITICAL"
        THEN [cand |-> Candidate(device_id, 90, analysis.impact_type, 1), flag |-> analysis.flag]
        ELSE IF analysis.status = "WARNING"
        THEN [cand |-> Candidate(device_id, 70, analysis.impact_type, 2), flag |-> analysis.flag]
        ELSE [cand |-> Candidate(device_id, 30, analysis.impact_type, 3), flag |-> analysis.flag]

\* one iteration of `for device_id, messages in msg_map.items()`:
\* the candidate appended and the _api_configured flag left behind
ClassifyDevice(device_id, messages, msg_map, silent_suspects, flag, genai_ok, reply) ==
    LET p == _get_parent_id(device_id)
        alarmed_ids == Keys(msg_map)
        parent_is_alarmed == p # NoParent /\ p \in alarmed_ids
        parent_is_silent_suspect == p # NoParent /\ p \in Keys(silent_suspects)
        analysis == analyze_redundancy_depth(device_id, messages, flag, genai_ok, reply)
    IN  IF parent_is_silent_suspect /\ AnyMsg(messages, _is_connection_loss)
        THEN [cand |-> Candidate(device_id, 40, "Network/ConnectionLost", 3), flag |-> flag]
        ELSE IF AnyMsg(messages, IsUnreachable) /\ parent_is_alarmed
        THEN [cand |-> Candidate(device_id, 20, "Network/Unreachable", 3), flag |-> flag]
        ELSE IF device_id \in Keys(silent_suspects)
        THEN [cand |-> Candidate(device_id, 80, "Network/SilentFailure", 1), flag |-> analysis.flag]
        ELSE IF analysis.impact_type = "UNKNOWN" /\ In(str_API_key_not_configured, analysis.reason)
        THEN [cand |-> Candidate(device_id, 50, analysis.impact_type, 3), flag |-> analysis.flag]
        ELSE IF analysis.status = "CRITICAL"
        THEN [cand |-> Candidate(device_id, 90, analysis.impact_type, 1), flag |-> analysis.flag]
        ELSE IF analysis.status = "WARNING"
        THEN [cand |-> Candidate(device_id, 70, analysis.impact_type, 2), flag |-> analysis.flag]
        ELSE [cand |-> Candidate(device_id, 30, analysis.impact_type, 3), flag |-> analysis.flag]

RECURSIVE AnalyzeLoop(_, _, _, _, _, _, _)
AnalyzeLoop(msg_map, silent_suspects, i, acc, flag, genai_ok, llm) ==
    IF i > Len(msg_map) THEN [results |-> acc, flag |-> flag]
    ELSE LET step == ClassifyDevice(msg_map[i].k, msg_map[i].v, msg_map, silent_suspects,
                                    flag, genai_ok, llm[msg_map[i].k])
         IN  AnalyzeLoop(msg_map, silent_suspects, i + 1, Append(acc, step.cand),
                         step.flag, genai_ok, llm)

\* variant of analyze without the early return for an empty alarm list
analyze_NoSentinel(as, flag, genai_ok, llm) ==
    LET msg_map0 == BuildMsgMap(as, 1, <<>>)
        silent_suspects == _detect_silent_failures(msg_map0)
        msg_map == AddSuspects(msg_map0, silent_suspects, 1)
        loop == AnalyzeLoop(msg_map, silent_suspects, 1, <<>>, flag, genai_ok, llm)
    IN  [results |-> SortByProbDesc(loop.results, 1, <<>>), flag |-> loop.flag]

\* the list returned by analyze(as) and the flag left on the engine;
\* llm maps each device to the reply of the LLM call made for it
analyze(as, flag, genai_ok, llm) ==
    IF Len(as) = 0
    THEN [results |-> <<Candidate(SYSTEM, 0, "Normal", 0)>>, flag |-> flag]
    ELSE LET msg_map0 == BuildMsgMap(as, 1, <<>>)
             silent_suspects == _detect_silent_failures(msg_map0)
             msg_map == AddSuspects(msg_map0, silent_suspects, 1)
             loop == AnalyzeLoop(msg_map, silent_suspects, 1, <<>>, flag, genai_ok, llm)
         IN  [results |-> SortByProbDesc(loop.results, 1, <<>>), flag |-> loop.flag]

(***************************************************************************)
(* logic.py: Alarm, simulate_cascade_failure                               *)
(***************************************************************************)
\* Alarm, with __post_init__: an invalid severity defaults to WARNING
Alarm(device_id, message, severity) ==
    [device_id |-> device_id, message |-> message,
     severity |-> IF severity \in {"CRITICAL", "WARNING", "INFO"} THEN severity ELSE "WARNING"]

\* variant of the BFS round that alarms the children without enqueueing them
RECURSIVE VisitChildren_NoEnqueue(_, _, _, _)
VisitChildren_NoEnqueue(topo, parent, i, st) ==
    IF i > Len(topo) THEN st
    ELSE IF topo[i].parent_id = parent /\ topo[i].id \notin st.processed
         THEN VisitChildren_NoEnqueue(topo, parent, i + 1,
                  [generated |-> Append(st.generated, Alarm(topo[i].id, str_Unreachable, "WARNING")),
                   queue |-> st.queue,
                   processed |-> st.processed \cup {topo[i].id}])
         ELSE VisitChildren_NoEnqueue(topo, parent, i + 1, st)

\* `for child in children` of one BFS round, children in topology order
RECURSIVE VisitChildren(_, _, _, _)
VisitChildren(topo, parent, i, st) ==
    IF i > Len(topo) THEN st
    ELSE IF topo[i].parent_id = parent /\ topo[i].id \notin st.processed
         THEN VisitChildren(topo, parent, i + 1,
                  [generated |-> Append(st.generated, Alarm(topo[i].id, str_Unreachable, "WARNING")),
                   queue |-> Append(st.queue, topo[i].id),
                   processed |-> st.processed \cup {topo[i].id}])
         ELSE VisitChildren(topo, parent, i + 1, st)

\* `while queue`
RECURSIVE CascadeLoop(_, _)
CascadeLoop(topo, st) ==
    IF Len(st.queue) = 0 THEN st.generated
    ELSE CascadeLoop(topo,
             VisitChildren(topo, Head(st.queue), 1,
                 [generated |-> st.generated, queue |-> Tail(st.queue), processed |-> st.processed]))

\* variant of simulate_cascade_failure without the check of the root id
simulate_cascade_failure_NoCheck(root_cause_id, topo, custom_message) ==
    [raised |-> FALSE,
     out |-> CascadeLoop(topo,
                 [generated |-> <<Alarm(root_cause_id, custom_message, "CRITICAL")>>,
                  queue |-> <<root_cause_id>>,
                  processed |-> {root_cause_id}])]

\* variant of simulate_cascade_failure that does not mark the root as processed
simulate_cascade_failure_RootUnmarked(root_cause_id, topo, custom_message) ==
    IF root_cause_id \notin Ids(topo) THEN [raised |-> TRUE, out |-> <<>>]
    ELSE [raised |-> FALSE,
          out |-> CascadeLoop(topo,
                      [generated |-> <<Alarm(root_cause_id, custom_message, "CRITICAL")>>,
                       queue |-> <<root_cause_id>>,
                       processed |-> {}])]

\* raised: ValueError, no list is returned
simulate_cascade_failure(root_cause_id, topo, custom_message) ==
    IF root_cause_id \notin Ids(topo) THEN [raised |-> TRUE, out |-> <<>>]
    ELSE [raised |-> FALSE,
          out |-> CascadeLoop(topo,
                      [generated |-> <<Alarm(root_cause_id, custom_message, "CRITICAL")>>,
                       queue |-> <<root_cause_id>>,
                       processed |-> {root_cause_id}])]

(***************************************************************************)
(* logic.py: CausalInferenceEngine (reads the node fields as attributes)   *)
(***************************************************************************)
\* root_cause_node None
None == 0

\* _check_silent_failure_for_parent returning None
NoResult == [root_cause_node |-> None, sop_key |-> "None", related_alarms |-> <<>>, severity |-> "UNKNOWN"]

InferenceResult(root, sop_key, related, severity) ==
    [root_cause_node |-> root, sop_key |-> sop_key, related_alarms |-> related,
     severity |-> IF severity \in {"CRITICAL", "WARNING", "INFO", "UNKNOWN"} THEN severity ELSE "UNKNOWN"]

LayerOf(a) == IF a.device_id \in Ids(topology) THEN topology[a.device_id].layer ELSE 999

\* sorted(alarms, key=layer)[0]: the first alarm of minimal layer
TopAlarm(as) ==
    as[CHOOSE i \in 1..Len(as) :
           /\ \A j \in 1..Len(as) : LayerOf(as[i]) <= LayerOf(as[j])
           /\ \A j \in 1..(i - 1) : LayerOf(as[j]) > LayerOf(as[i])]

\* variant of _analyze_redundancy that reports a total failure as soon as
\* one member is down
_analyze_redundancy_AnyDown(node, alarmed_ids, as) ==
    LET group_members == {d \in Ids(topology) : topology[d].redundancy_group = node.redundancy_group}
        down_members == {d \in group_members : topology[d].id \in alarmed_ids}
    IN  IF Cardinality(down_members) >= 1
        THEN InferenceResult(node.id, "HA_TOTAL_FAILURE", as, "CRITICAL")
        ELSE InferenceResult(node.id, "HA_PARTIAL_FAILURE", as, "WARNING")

\* variant of _analyze_redundancy that passes on the severity of the first alarm
_analyze_redundancy_AlarmSeverity(node, alarmed_ids, as) ==
    LET group_members == {d \in Ids(topology) : topology[d].redundancy_group = node.redundancy_group}
        down_members == {d \in group_members : topology[d].id \in alarmed_ids}
    IN  IF Cardinality(down_members) = Cardinality(group_members)
        THEN InferenceResult(node.id, "HA_TOTAL_FAILURE", as, as[1].severity)
        ELSE InferenceResult(node.id, "HA_PARTIAL_FAILURE", as, as[1].severity)

_analyze_redundancy(node, alarmed_ids, as) ==
    LET group_members == {d \in Ids(topology) : topology[d].redundancy_group = node.redundancy_group}
        down_members == {d \in group_members : topology[d].id \in alarmed_ids}
    IN  IF Cardinality(down_members) = Cardinality(group_members)
        THEN InferenceResult(node.id, "HA_TOTAL_FAILURE", as, "CRITICAL")
        ELSE InferenceResult(node.id, "HA_PARTIAL_FAILURE", as, "WARNING")

_check_silent_failure_for_parent(parent_id, alarmed_ids) ==
    IF parent_id \notin Ids(topology) THEN NoResult
    ELSE LET children == {d \in Ids(topology) : topology[d].parent_id = parent_id}
             children_down == Cardinality({d \in children : topology[d].id \in alarmed_ids})
         IN  IF children = {} THEN NoResult
             ELSE IF children_down = Cardinality(children)
             THEN InferenceResult(parent_id, "SILENT_FAILURE", <<>>, "CRITICAL")
             ELSE NoResult

analyze_alarms(as) ==
    IF Len(as) = 0 THEN InferenceResult(None, "DEFAULT", <<>>, "INFO")
    ELSE LET alarmed_device_ids == {as[i].device_id : i \in 1..Len(as)}
             top_alarm == TopAlarm(as)
         IN  IF top_alarm.device_id \notin Ids(topology)
             THEN InferenceResult(None, "DEFAULT", as, "UNKNOWN")
             ELSE LET top_node == topology[top_alarm.device_id]
                      silent_res == _check_silent_failure_for_parent(top_node.parent_id, alarmed_device_ids)
                  IN  IF top_node.redundancy_group # NoGroup
                      THEN _analyze_redundancy(top_node, alarmed_device_ids, as)
                      ELSE IF top_node.parent_id # NoParent /\ silent_res # NoResult
                      THEN silent_res
                      ELSE InferenceResult(top_node.id, "HIERARCHY_FAILURE", as, top_alarm.severity)

\* validate_topology: the issues are logged and False is returned; nothing in
\* the function raises
validate_topology(topo) ==
    IF Len(topo) = 0 THEN [ret |-> FALSE, raised |-> FALSE]
    ELSE LET issues == {d \in Ids(topo) :
                           \/ topo[d].id # d
                           \/ topo[d].parent_id # NoParent /\ topo[d].parent_id \notin Ids(topo)}
         IN  [ret |-> issues = {}, raised |-> FALSE]

\* CausalInferenceEngine.__init__: only an empty topology is refused
CausalInferenceEngine_init(topo) == [raised |-> Len(topo) = 0]

(***************************************************************************)
(* bayes_engine.py: BayesianRCA                                            *)
(***************************************************************************)
Ev(type, value) == [type |-> type, value |-> value]

knowledge_base ==
    << [k |-> <<"FW_01_PRIMARY", "Hardware/Physical">>,
        v |-> <<Ev("alarm", str_Heartbeat_Loss), Ev("alarm", str_HA_Failover),
                Ev("log", str_Power_Fail), Ev("ping", str_NG)>>],
       [k |-> <<"WAN_ROUTER_01", "Hardware/Physical">>,
        v |-> <<Ev("alarm", str_Power_Supply_1_Failed), Ev("log", str_Interface_Down),
                Ev("ping", str_NG), Ev("log", str_System_Overheat)>>],
       [k |-> <<"WAN_ROUTER_01", "Config/Software">>,
        v |-> <<Ev("alarm", str_BGP_Flapping), Ev("log", str_Config_Error)>>],
       [k |-> <<"WAN_ROUTER_01", "Hardware/Critical_Multi_Fail">>,
        v |-> <<Ev("alarm", str_Power_Supply_1_Failed), Ev("alarm", str_Fan_Fail),
                Ev("log", str_System_Overheat)>>],
       [k |-> <<"L2_SW", "Hardware/Fan">>,
        v |-> <<Ev("alarm", str_Fan_Fail), Ev("log", str_High_Temperature),
                Ev("log", str_System_Warning)>>],
       [k |-> <<"AP_01", "Network/Connection">>,
        v |-> <<Ev("alarm", str_Connection_Lost), Ev("ping", str_NG)>>],
       [k |-> <<"External_ISP", "Network">>,
        v |-> <<Ev("alarm", str_BGP_Flapping), Ev("ping", str_NG)>>] >>

Elems(seq) == {seq[i] : i \in 1..Len(seq)}

RECURSIVE SumOver(_, _)
SumOver(S, f) ==
    IF S = {} THEN 0
    ELSE LET x == CHOOSE y \in S : TRUE IN f[x] + SumOver(S \ {x}, f)

Min(a, b) == IF a <= b THEN a ELSE b

\* candidates = list(knowledge_base.keys()), plus AP_01 on "Connection Lost" evidence
Candidates(ev) ==
    LET keys == [i \in 1..Len(knowledge_base) |-> knowledge_base[i].k]
    IN  IF (\E e \in ev : e.value = str_Connection_Lost)
           /\ <<"AP_01", "Network/Connection">> \notin Elems(keys)
        THEN Append(keys, <<"AP_01", "Network/Connection">>)
        ELSE keys

ExpectedSymptoms(cand) ==
    IF cand[1] = "AP_01" THEN <<Ev("alarm", str_Connection_Lost), Ev("ping", str_NG)>>
    ELSE Get(knowledge_base, cand, <<>>)

\* variant of the evidence gain that credits a partial match whatever the type
EvidenceGain_AnyType(e, expected) ==
    IF e \in expected THEN 40 ELSE 5

\* what one evidence pair adds to a candidate's score: exact match, or
\* partial match on the type
EvidenceGain(e, expected) ==
    IF e \in expected THEN 40
    ELSE IF \E s \in expected : s.type = e.type THEN 5
    ELSE 0

\* variant of the cap that lets the score through
CapScore_NoCap(score) == score

\* final_prob = min(score, 1.0)
CapScore(score) == Min(score, 100)

\* the score of one candidate: [listed, entry]
ScoreOf(cand, ev) ==
    LET expected == Elems(ExpectedSymptoms(cand))
        gain == [e \in ev |-> EvidenceGain(e, expected)]
        match_count == Cardinality({e \in ev : e \in expected})
        boost_fw == IF cand[1] = "FW_01_PRIMARY" /\ (\E e \in ev : e.value = str_Heartbeat_Loss)
                    THEN 50 ELSE 0
        boost_ap == IF cand[1] = "AP_01" /\ (\E e \in ev : e.value = str_Connection_Lost)
                    THEN 50 ELSE 0
        boost_multi == IF cand[2] = "Hardware/Critical_Multi_Fail"
                          /\ Cardinality({e \in ev : In(str_Fail, e.value)}) >= 2
                       THEN 60 ELSE 0
        score == SumOver(ev, gain) + boost_fw + boost_ap + boost_multi
        final_prob == CapScore(score)
    IN  [listed |-> expected # {} /\ final_prob > 10,
         entry |-> [id |-> cand[1], type |-> cand[2], prob |-> final_prob, matched |-> match_count]]

RECURSIVE RankLoop(_, _, _, _)
RankLoop(cands, ev, i, acc) ==
    IF i > Len(cands) THEN acc
    ELSE LET s == ScoreOf(cands[i], ev)
         IN  RankLoop(cands, ev, i + 1, IF s.listed THEN Append(acc, s.entry) ELSE acc)

get_ranking(ev) ==
    LET listed == RankLoop(Candidates(ev), ev, 1, <<>>)
    IN  IF Len(listed) = 0
        THEN <<[id |-> "System", type |-> "Normal", prob |-> 0, matched |-> 0]>>
        ELSE SortByProbDesc(listed, 1, <<>>)

(***************************************************************************)
(* Inputs: topologies, alarms                                              *)
(***************************************************************************)
RECURSIVE Depth(_, _)
Depth(parents, d) == IF parents[d] = NoParent THEN 1 ELSE 1 + Depth(parents, parents[d])

\* parent maps over 1..n in which every parent precedes its children: forests
ParentMaps(n) == {f \in [1..n -> 0..n] : \A d \in 1..n : f[d] < d}

TopologyOf(parents, groups) ==
    [d \in DOMAIN parents |-> Node(d, parents[d], Depth(parents, d), groups[d])]

\* layers of a parent map that may contain cycles: every node at layer 1
TopologyOf2(parents) ==
    [d \in DOMAIN parents |-> Node(d, parents[d], 1, NoGroup)]

NoGroups(n) == [d \in 1..n |-> NoGroup]

GeneralTopologies ==
    UNION {{TopologyOf(f, NoGroups(n)) : f \in ParentMaps(n)} : n \in 1..MaxDev}

GeneralMessages ==
    {str_Connection_Lost, str_Unreachable, str_Heartbeat_Loss,
     str_Power_Supply_Dual_Loss_Device_Down, str_Fan_Fail}

ConstantReplies(n) == {[d \in 1..n |-> r] : r \in LLMReplies}

(***************************************************************************)
(* Actions                                                                 *)
(***************************************************************************)
\* values of the result variables before the first call
NoInference == [root_cause_node |-> None, sop_key |-> "NotRun", related_alarms |-> <<>>, severity |-> "UNKNOWN"]
NoCascade == [root |-> 0, message |-> <<>>, raised |-> FALSE, out |-> <<>>]
NoUpdate == [pair |-> Ev("", <<>>), before |-> <<>>]
NoValidation == [called |-> FALSE, ret |-> FALSE, raised |-> FALSE]

InitEngines(topo) ==
    /\ topology = topo
    /\ children_map = LogicalRCA_init(topo)
    /\ api_configured = FALSE
    /\ alarms = <<>>
    /\ results = <<>>
    /\ analyze_calls = 0
    /\ inference = NoInference
    /\ cascade = NoCascade
    /\ evidence = {}
    /\ ranking = <<>>
    /\ last_update = NoUpdate
    /\ validation = NoValidation
    /\ session_state = <<>>
    /\ topology_mtime = <<>>
    /\ evidence_iter = <<>>

\* the alarm source delivers one more alarm of the cycle
RaiseAlarm(d, m, s, max) ==
    /\ Len(alarms) < max
    /\ alarms' = Append(alarms, Alarm(d, m, s))
    /\ results' = <<>>
    /\ analyze_calls' = 0
    /\ inference' = NoInference
    /\ UNCHANGED <<evidence_iter, session_state, topology_mtime, validation, topology, children_map, GOOGLE_API_KEY, api_configured,
                   cascade, evidence, ranking, last_update>>

\* engine.analyze(alarms)
Analyze(genai_ok, llm, max_calls) ==
    LET r == analyze(alarms, api_configured, genai_ok, llm)
    IN  /\ analyze_calls < max_calls
        /\ results' = r.results
        /\ analyze_calls' = analyze_calls + 1
        /\ api_configured' = r.flag
        /\ UNCHANGED <<evidence_iter, session_state, topology_mtime, validation, topology, children_map, GOOGLE_API_KEY, alarms,
                       inference, cascade, evidence, ranking, last_update>>

(***************************************************************************)
(* General specification of LogicalRCA, no GOOGLE_API_KEY in the environment *)
(***************************************************************************)
InitRCA ==
    /\ \E topo \in GeneralTopologies : InitEngines(topo)
    /\ GOOGLE_API_KEY = FALSE

RaiseAlarmRCA ==
    \E d \in 1..MaxDev, m \in GeneralMessages : RaiseAlarm(d, m, "WARNING", MaxAlarms)

\* the outcomes of the API configuration and of the LLM calls only matter
\* when the engine can reach the LLM
GenaiOutcomes == IF GOOGLE_API_KEY /\ ~api_configured THEN BOOLEAN ELSE {TRUE}

LLMOutcomes(n) ==
    IF GOOGLE_API_KEY \/ api_configured
    THEN ConstantReplies(n)
    ELSE {[d \in 1..n |-> CHOOSE r \in LLMReplies : r.kind = "exception"]}

AnalyzeRCA ==
    \E genai_ok \in GenaiOutcomes, llm \in LLMOutcomes(MaxDev) : Analyze(genai_ok, llm, MaxCalls)

NextRCA == RaiseAlarmRCA \/ AnalyzeRCA

SpecRCA == InitRCA /\ [][NextRCA]_vars

(***************************************************************************)
(* Silent-failure specification: deeper trees, connection-loss alarms      *)
(***************************************************************************)
\* device 1 is the root aggregator, device 2 an aggregator below it,
\* every other device hangs below one of the two, those below device 1 first
SilentParentMaps(n) ==
    {f \in ParentMaps(n) : \A d \in 1..n :
        /\ d = 2 => f[d] = 1
        /\ d > 2 => f[d] \in {1, 2}
        /\ d > 3 => f[d - 1] <= f[d]}

SilentTopologies ==
    UNION {{TopologyOf(f, NoGroups(n)) : f \in SilentParentMaps(n)} : n \in 1..SilentMaxDev}

InitSilent ==
    /\ \E topo \in SilentTopologies : InitEngines(topo)
    /\ GOOGLE_API_KEY = FALSE

\* each device reports its connection loss once per cycle
RaiseAlarmSilent ==
    \E d \in Ids(topology) :
        /\ \A i \in 1..Len(alarms) : alarms[i].device_id # d
        /\ RaiseAlarm(d, str_Connection_Lost, "CRITICAL", SilentMaxAlarms)

\* one engine.analyze(alarms) per cycle
AnalyzeSilent ==
    \E genai_ok \in GenaiOutcomes, llm \in LLMOutcomes(SilentMaxDev) : Analyze(genai_ok, llm, 1)

NextSilent == RaiseAlarmSilent \/ AnalyzeSilent

SpecSilent == InitSilent /\ [][NextSilent]_vars

(***************************************************************************)
(* Redundancy specification: both engines on topologies with HA groups     *)
(***************************************************************************)
HaGroups(n) == [1..n -> {NoGroup, "fw-ha"}]

HaTopologies ==
    UNION {{TopologyOf(f, g) : f \in ParentMaps(n), g \in HaGroups(n)} : n \in 1..HaMaxDev}

\* a heartbeat warning as the generator raises it on a firewall, and the
\* critical alarm of a device that lost both power supplies
HaAlarms ==
    { [message |-> str_Heartbeat_Loss, severity |-> "WARNING"],
      [message |-> str_Power_Supply_Dual_Loss_Device_Down, severity |-> "CRITICAL"] }

InitHA ==
    /\ \E topo \in HaTopologies : InitEngines(topo)
    /\ GOOGLE_API_KEY = FALSE

RaiseAlarmHA ==
    \E d \in Ids(topology), a \in HaAlarms :
        RaiseAlarm(d, a.message, a.severity, HaMaxAlarms)

\* one engine.analyze(alarms) per cycle
AnalyzeHA ==
    \E genai_ok \in GenaiOutcomes, llm \in LLMOutcomes(HaMaxDev) : Analyze(genai_ok, llm, 1)

\* CausalInferenceEngine(topology).analyze_alarms(alarms)
AnalyzeAlarms ==
    /\ inference = NoInference
    /\ inference' = analyze_alarms(alarms)
    /\ UNCHANGED <<evidence_iter, session_state, topology_mtime, validation, topology, children_map, GOOGLE_API_KEY, api_configured, alarms, results,
                   analyze_calls, cascade, evidence, ranking, last_update>>

NextHA == RaiseAlarmHA \/ AnalyzeHA \/ AnalyzeAlarms

SpecHA == InitHA /\ [][NextHA]_vars

(***************************************************************************)
(* Cascade specification: simulate_cascade_failure on any parent map       *)
(***************************************************************************)
CascadeTopologies ==
    UNION {{TopologyOf2(f) : f \in [1..n -> 0..n]} : n \in 1..CascadeMaxDev}

CascadeMessages == {str_Interface_Down, str_Power_Supply_Dual_Loss_Device_Down}

InitCascade ==
    /\ \E topo \in CascadeTopologies : InitEngines(topo)
    /\ GOOGLE_API_KEY = FALSE

\* simulate_cascade_failure(root_cause_id, topology, custom_message);
\* root CascadeMaxDev + 1 is never a key of the topology
SimulateCascade ==
    \E r \in 1..(CascadeMaxDev + 1), m \in CascadeMessages :
        /\ LET ret == simulate_cascade_failure(r, topology, m)
           IN  cascade' = [root |-> r, message |-> m, raised |-> ret.raised, out |-> ret.out]
        /\ UNCHANGED <<evidence_iter, session_state, topology_mtime, validation, topology, children_map, GOOGLE_API_KEY, api_configured, alarms, results,
                       analyze_calls, inference, evidence, ranking, last_update>>

NextCascade == SimulateCascade

SpecCascade == InitCascade /\ [][NextCascade]_vars

(***************************************************************************)
(* Bayes specification: one BayesianRCA session                            *)
(***************************************************************************)
KnownPairs ==
    {Ev("alarm", str_Heartbeat_Loss), Ev("alarm", str_Connection_Lost),
     Ev("alarm", str_Power_Supply_1_Failed), Ev("alarm", str_Fan_Fail),
     Ev("alarm", str_BGP_Flapping), Ev("ping", str_NG), Ev("log", str_System_Overheat)}

UnknownPairs ==
    {Ev("alarm", str_Link_Flap), Ev("trap", str_Link_Flap), Ev("trap", str_Heartbeat_Loss),
     Ev("log", str_Fan_Module_Failed), Ev("trap", str_Connection_Lost)}

EvidencePairs == KnownPairs \cup UnknownPairs

InitBayes ==
    /\ InitEngines(TopologyOf([d \in 1..1 |-> NoParent], NoGroups(1)))
    /\ GOOGLE_API_KEY = FALSE

\* variant of update_probabilities that keeps the new pair only
UpdateProbabilities_Replace ==
    \E e \in EvidencePairs :
        /\ evidence' = {e}
        /\ last_update' = [pair |-> e, before |-> get_ranking(evidence)]
        /\ ranking' = <<>>
        /\ UNCHANGED <<evidence_iter, session_state, topology_mtime, validation, topology, children_map, GOOGLE_API_KEY, api_configured, alarms, results,
                       analyze_calls, inference, cascade>>

\* bayes.update_probabilities(type, value); last_update keeps the pair and what
\* get_ranking returned just before the call
UpdateProbabilities ==
    \E e \in EvidencePairs :
        /\ Cardinality(evidence \cup {e}) <= MaxEvidence
        /\ evidence' = evidence \cup {e}
        /\ last_update' = [pair |-> e, before |-> get_ranking(evidence)]
        /\ ranking' = <<>>
        /\ UNCHANGED <<evidence_iter, session_state, topology_mtime, validation, topology, children_map, GOOGLE_API_KEY, api_configured, alarms, results,
                       analyze_calls, inference, cascade>>

\* bayes.get_ranking()
GetRanking ==
    /\ ranking' = get_ranking(evidence)
    /\ UNCHANGED <<evidence_iter, session_state, topology_mtime, validation, topology, children_map, GOOGLE_API_KEY, api_configured, alarms, results,
                   analyze_calls, inference, cascade, evidence, last_update>>

NextBayes == UpdateProbabilities \/ GetRanking

SpecBayes == InitBayes /\ [][NextBayes]_vars


(***************************************************************************)
(* Output specification: what the engines return. LogicalRCA runs without  *)
(* GOOGLE_API_KEY on every forest of up to OutMaxDev dict records and with *)
(* the key on every forest of up to MaxDev; one BayesianRCA session runs   *)
(* next to it.                                                             *)
(***************************************************************************)
OutTopologies ==
    UNION {{TopologyOf(f, NoGroups(n)) : f \in ParentMaps(n)} : n \in 1..OutMaxDev}

\* without a key the local rules and the cascade branches decide
RuleMessages == {str_Connection_Lost, str_Unreachable, str_Power_Supply_Dual_Loss_Device_Down}

\* with a key the LLM decides what the local rules leave open
LlmMessages == {str_Connection_Lost, str_Heartbeat_Loss}

\* BayesianRCA keeps its topology without reading it
BayesTopology == TopologyOf([d \in 1..1 |-> NoParent], NoGroups(1))

UsesLogicalRCA == alarms # <<>> \/ analyze_calls > 0
UsesBayes == evidence # {} \/ ranking # <<>>

InitOutputs ==
    \/ /\ \E topo \in OutTopologies : InitEngines(topo)
       /\ GOOGLE_API_KEY = FALSE
    \/ /\ \E topo \in GeneralTopologies : InitEngines(topo)
       /\ GOOGLE_API_KEY = TRUE

RaiseAlarmOutputs ==
    /\ ~UsesBayes
    /\ \E d \in 1..(IF GOOGLE_API_KEY THEN MaxDev ELSE OutMaxDev),
          m \in (IF GOOGLE_API_KEY THEN LlmMessages ELSE RuleMessages) :
           RaiseAlarm(d, m, "WARNING", OutMaxAlarms)

\* one engine.analyze(alarms) per cycle
AnalyzeOutputs ==
    /\ ~UsesBayes
    /\ \E genai_ok \in GenaiOutcomes, llm \in LLMOutcomes(OutMaxDev) : Analyze(genai_ok, llm, 1)

BayesOutputs ==
    /\ ~UsesLogicalRCA
    /\ topology = BayesTopology
    /\ ~GOOGLE_API_KEY
    /\ (UpdateProbabilities \/ GetRanking)

NextOutputs == RaiseAlarmOutputs \/ AnalyzeOutputs \/ BayesOutputs

SpecOutputs == InitOutputs /\ [][NextOutputs]_vars

(***************************************************************************)
(* Validation specification: topologies of NetworkNode objects in which a  *)
(* parent_id may name a device that is not in the topology                 *)
(***************************************************************************)
\* the id ValMaxDev + 1 is never a key of the topology
Dangling == ValMaxDev + 1

ValParentMaps(n) ==
    {f \in [1..n -> 0..Dangling] : \A d \in 1..n : f[d] < d \/ f[d] = Dangling}

RECURSIVE ValDepth(_, _)
ValDepth(parents, d) ==
    IF parents[d] = NoParent THEN 1
    ELSE IF parents[d] \notin DOMAIN parents THEN 2
    ELSE 1 + ValDepth(parents, parents[d])

NodeObject(id, parent, layer, group) == [Node(id, parent, layer, group) EXCEPT !.is_dict = FALSE]

ValTopologies ==
    UNION {{[d \in 1..n |-> NodeObject(d, f[d], ValDepth(f, d), NoGroup)] : f \in ValParentMaps(n)}
           : n \in 1..ValMaxDev}

InitValidate ==
    /\ \E topo \in ValTopologies :
           /\ ~CausalInferenceEngine_init(topo).raised
           /\ InitEngines(topo)
    /\ GOOGLE_API_KEY = FALSE

\* validate_topology(topology)
ValidateTopology ==
    /\ ~validation.called
    /\ LET v == validate_topology(topology)
       IN  validation' = [called |-> TRUE, ret |-> v.ret, raised |-> v.raised]
    /\ UNCHANGED <<evidence_iter, session_state, topology_mtime, topology, children_map, GOOGLE_API_KEY, api_configured, alarms, results,
                   analyze_calls, inference, cascade, evidence, ranking, last_update>>

ValMessages == {str_Connection_Lost, str_Power_Supply_Dual_Loss_Device_Down}

RaiseAlarmValidate ==
    \E d \in Ids(topology), m \in ValMessages : RaiseAlarm(d, m, "CRITICAL", ValMaxAlarms)

\* one engine.analyze(alarms) per cycle
AnalyzeValidate ==
    \E genai_ok \in GenaiOutcomes, llm \in LLMOutcomes(ValMaxDev) : Analyze(genai_ok, llm, 1)

NextValidate == ValidateTopology \/ RaiseAlarmValidate \/ AnalyzeValidate \/ AnalyzeAlarms

SpecValidate == InitValidate /\ [][NextValidate]_vars

(***************************************************************************)
(* Cascade-then-analyse specification: the alarms of the cycle are those   *)
(* simulate_cascade_failure generates, as in _generate_wan_outage_alarms.  *)
(* The cascade reads NetworkNode objects; LogicalRCA is built on the same  *)
(* topology, given as those objects or as dict records.                    *)
(***************************************************************************)
ChainTopologies ==
    UNION {{[d \in 1..n |-> [TopologyOf(f, NoGroups(n))[d] EXCEPT !.is_dict = as_dict]]
               : f \in ParentMaps(n), as_dict \in BOOLEAN}
           : n \in 1..ChainMaxDev}

InitChain ==
    /\ \E topo \in ChainTopologies : InitEngines(topo)
    /\ GOOGLE_API_KEY \in BOOLEAN

\* alarms = simulate_cascade_failure(root, topology, message)
CascadeAlarms ==
    \E r \in Ids(topology), m \in CascadeMessages :
        LET ret == simulate_cascade_failure(r, topology, m)
        IN  /\ ~ret.raised
            /\ cascade' = [root |-> r, message |-> m, raised |-> ret.raised, out |-> ret.out]
            /\ alarms' = ret.out
            /\ results' = <<>>
            /\ analyze_calls' = 0
            /\ inference' = NoInference
            /\ UNCHANGED <<evidence_iter, session_state, topology_mtime, validation, topology, children_map, GOOGLE_API_KEY, api_configured,
                           evidence, ranking, last_update>>

\* one engine.analyze(alarms) per cycle
AnalyzeChain ==
    \E genai_ok \in GenaiOutcomes, llm \in LLMOutcomes(ChainMaxDev) : Analyze(genai_ok, llm, 1)

NextChain == CascadeAlarms \/ AnalyzeChain

SpecChain == InitChain /\ [][NextChain]_vars

(***************************************************************************)
(* Hardware specification: the alarms of _generate_complex_failure_alarms  *)
(* on devices with and without a PSU inventory                             *)
(***************************************************************************)
\* metadata.hw_inventory.psu_count: absent (0), 1 or 2
PsuCounts == {0, 1, 2}

HwTopologies ==
    UNION {{[d \in 1..n |-> [TopologyOf(f, NoGroups(n))[d] EXCEPT !.psu_count = c[d]]]
               : f \in ParentMaps(n), c \in [1..n -> PsuCounts]}
           : n \in 1..HwMaxDev}

HwMessages == {str_Power_Supply_1_Failed, str_Fan_Module_Failed, str_Temperature_Critical}

InitHardware ==
    /\ \E topo \in HwTopologies : InitEngines(topo)
    /\ GOOGLE_API_KEY = FALSE

RaiseAlarmHardware ==
    \E d \in Ids(topology), m \in HwMessages : RaiseAlarm(d, m, "CRITICAL", HwMaxAlarms)

\* one engine.analyze(alarms) per cycle
AnalyzeHardware ==
    \E genai_ok \in GenaiOutcomes, llm \in LLMOutcomes(HwMaxDev) : Analyze(genai_ok, llm, 1)

NextHardware == RaiseAlarmHardware \/ AnalyzeHardware

SpecHardware == InitHardware /\ [][NextHardware]_vars
(***************************************************************************)
(* Topology relations used by the properties                               *)
(***************************************************************************)
RECURSIVE AncestorsWithin(_, _)
AncestorsWithin(d, fuel) ==
    IF fuel = 0 \/ d \notin Ids(topology) THEN {}
    ELSE LET p == topology[d].parent_id
         IN  IF p = NoParent THEN {} ELSE {p} \cup AncestorsWithin(p, fuel - 1)

Ancestors(d) == AncestorsWithin(d, Len(topology))
Descendants(x) == {d \in Ids(topology) : x \in Ancestors(d)}
ChildrenOf(p) == {d \in Ids(topology) : topology[d].parent_id = p}
IsForest == \A d \in Ids(topology) : d \notin Ancestors(d)

AlarmedIds == {alarms[i].device_id : i \in 1..Len(alarms)}
MessagesOf(d) == {alarms[i].message : i \in {j \in 1..Len(alarms) : alarms[j].device_id = d}}
ReportsConnectionLoss(d) ==
    \E m \in MessagesOf(d) :
        In(str_Connection_Lost, m) \/ In(str_Link_Down, m) \/ In(str_Port_Down, m) \/ In(str_Unreachable, m)

Analyzed == analyze_calls > 0
RankOf(d) == CHOOSE i \in 1..Len(results) : results[i].id = d
HasCandidate(d) == \E i \in 1..Len(results) : results[i].id = d
ProbOf(d) == results[RankOf(d)].prob

(***************************************************************************)
(* C1: a parent without alarms of its own, at least two and at least half  *)
(* of whose children report a connection loss, is in the output with       *)
(* prob >= 0.8, and none of those children is ranked before it or has a    *)
(* higher prob.                                                            *)
(***************************************************************************)
AffectedChildren(p) == {c \in ChildrenOf(p) : ReportsConnectionLoss(c)}

QualifiesAsSilent(p) ==
    /\ p \notin AlarmedIds
    /\ Cardinality(AffectedChildren(p)) >= 2
    /\ 2 * Cardinality(AffectedChildren(p)) >= Cardinality(ChildrenOf(p))

C1_SilentParentOutranksChildren ==
    Analyzed =>
        \A p \in Ids(topology) :
            QualifiesAsSilent(p) =>
                /\ HasCandidate(p)
                /\ ProbOf(p) >= 80
                /\ \A c \in AffectedChildren(p) :
                       HasCandidate(c) => RankOf(c) > RankOf(p) /\ ProbOf(c) <= ProbOf(p)

(***************************************************************************)
(* C2: a candidate above 0.8 forces every descendant that is not itself    *)
(* above 0.8 into the output with prob <= 0.5 and a secondary/unreachable  *)
(* type.                                                                   *)
(***************************************************************************)
C2_PropagationToDescendants ==
    Analyzed =>
        \A x \in Ids(topology) :
            (HasCandidate(x) /\ ProbOf(x) > 80) =>
                \A d \in Descendants(x) :
                    (HasCandidate(d) /\ ProbOf(d) > 80)
                    \/ /\ HasCandidate(d)
                       /\ ProbOf(d) <= 50
                       /\ results[RankOf(d)].type \in {"Network/Secondary", "Network/Unreachable"}

(***************************************************************************)
(* C3: on a forest, simulate_cascade_failure(r, T, msg) returns exactly    *)
(* one CRITICAL alarm, at r with msg, and exactly one WARNING              *)
(* "Unreachable" alarm per transitive descendant of r, and nothing else.   *)
(***************************************************************************)
CascadeRan == cascade.root # 0

AlarmsAt(out, d) == {i \in 1..Len(out) : out[i].device_id = d}

C3_CascadeCoversExactlyTheSubtree ==
    (CascadeRan /\ cascade.root \in Ids(topology) /\ IsForest) =>
        LET out == cascade.out
            r == cascade.root
            D == Descendants(r)
        IN  /\ ~cascade.raised
            /\ Len(out) = 1 + Cardinality(D)
            /\ \A i \in 1..Len(out) :
                   out[i].severity = "CRITICAL" =>
                       out[i].device_id = r /\ out[i].message = cascade.message
            /\ Cardinality({i \in 1..Len(out) : out[i].severity = "CRITICAL"}) = 1
            /\ \A d \in D :
                   /\ Cardinality(AlarmsAt(out, d)) = 1
                   /\ \A i \in AlarmsAt(out, d) :
                          out[i].severity = "WARNING" /\ out[i].message = str_Unreachable
            /\ \A i \in 1..Len(out) : out[i].device_id \in D \cup {r}

\* a cascade over a forest from a root with a grandchild, with a device outside the subtree
C3_Witness ==
    /\ CascadeRan
    /\ cascade.root \in Ids(topology)
    /\ IsForest
    /\ \E d \in Descendants(cascade.root) : topology[d].parent_id # cascade.root
    /\ \E d \in Ids(topology) : d # cascade.root /\ d \notin Descendants(cascade.root)
    /\ Len(cascade.out) >= 3

(***************************************************************************)
(* C4: in a redundancy group of at least two members of which some but not *)
(* all are alarmed, no member gets a prob above 0.8 (local rules, no LLM). *)
(***************************************************************************)
Groups == {topology[d].redundancy_group : d \in Ids(topology)} \ {NoGroup}
Members(g) == {d \in Ids(topology) : topology[d].redundancy_group = g}

C4_PartialGroupNeverCritical ==
    (Analyzed /\ ~GOOGLE_API_KEY) =>
        \A g \in Groups :
            LET k == Cardinality(Members(g) \cap AlarmedIds)
            IN  (Cardinality(Members(g)) >= 2 /\ 0 < k /\ k < Cardinality(Members(g))) =>
                    \A d \in Members(g) : HasCandidate(d) => ProbOf(d) <= 80

(***************************************************************************)
(* C5: when every member of a redundancy group is alarmed, at least one    *)
(* member gets a prob above 0.8 (local rules, no LLM).                     *)
(***************************************************************************)
C5_FullGroupCritical ==
    (Analyzed /\ ~GOOGLE_API_KEY) =>
        \A g \in Groups :
            Members(g) \subseteq AlarmedIds =>
                \E d \in Members(g) : HasCandidate(d) /\ ProbOf(d) > 80

(***************************************************************************)
(* C6: after an update with a known evidence pair the probs returned by    *)
(* get_ranking sum to 1.0.                                                 *)
(***************************************************************************)
Ranked == ranking # <<>>
Updated == last_update.pair.type # ""
IsKnownPair(e) == \E i \in 1..Len(knowledge_base) : e \in Elems(knowledge_base[i].v)

RECURSIVE SumProbs(_, _)
SumProbs(list, i) == IF i > Len(list) THEN 0 ELSE list[i].prob + SumProbs(list, i + 1)

C7_UnknownEvidenceSkipped ==
    (Ranked /\ Updated /\ ~IsKnownPair(last_update.pair)) => ranking = last_update.before

\* in exact arithmetic, an update with a pair whose type is the type of no
\* knowledge-base symptom and whose value triggers no boost (it is neither
\* "Heartbeat Loss" nor "Connection Lost" and does not contain "Fail") leaves
\* the result of get_ranking as it was before the call; in floating point it
\* does not (see C29)
IsForeignPair(e) ==
    /\ ~\E i \in 1..Len(knowledge_base) : \E s \in Elems(knowledge_base[i].v) : s.type = e.type
    /\ e.value # str_Heartbeat_Loss
    /\ e.value # str_Connection_Lost
    /\ ~In(str_Fail, e.value)

C7_ForeignEvidenceSkipped ==
    (Ranked /\ Updated /\ IsForeignPair(last_update.pair)) => ranking = last_update.before

\* a foreign pair was added on top of evidence that already ranks a candidate
C7_Witness ==
    /\ Ranked
    /\ Updated
    /\ IsForeignPair(last_update.pair)
    /\ Cardinality(evidence) >= 2
    /\ ranking[1].id # "System"

(***************************************************************************)
(* C8: Scenario A. R (1), S1 (2) under R, AP1 (3) and AP2 (4) under S1,    *)
(* alarms [AP1 "Connection Lost", AP2 "Connection Lost"]: S1 is first as   *)
(* Network/SilentFailure with prob >= 0.8, AP1 and AP2 are below 0.5, R    *)
(* has no candidate.                                                       *)
(***************************************************************************)
ScenarioA ==
    /\ Len(topology) = 4
    /\ topology[1].parent_id = NoParent /\ topology[1].layer = 1
    /\ topology[2].parent_id = 1
    /\ topology[3].parent_id = 2
    /\ topology[4].parent_id = 2
    /\ \A d \in 1..4 : topology[d].is_dict
    /\ Len(alarms) = 2
    /\ alarms[1].device_id = 3 /\ alarms[1].message = str_Connection_Lost
    /\ alarms[2].device_id = 4 /\ alarms[2].message = str_Connection_Lost

C8_ScenarioA ==
    (ScenarioA /\ Analyzed) =>
        /\ results[1].id = 2
        /\ results[1].type = "Network/SilentFailure"
        /\ results[1].prob >= 80
        /\ HasCandidate(3) /\ ProbOf(3) < 50
        /\ HasCandidate(4) /\ ProbOf(4) < 50
        /\ ~HasCandidate(1)

C8_Witness == ScenarioA /\ Analyzed /\ Len(results) = 3

(***************************************************************************)
(* C9: Scenario B. FW_A (1) and FW_B (2) in group "fw-ha", single alarm    *)
(* FW_A "Heartbeat Loss", no LLM key: analyze gives FW_A prob <= 0.8 and   *)
(* FW_B no candidate; analyze_alarms returns severity WARNING.             *)
(***************************************************************************)
InferenceRan == inference.sop_key # "NotRun"

ScenarioB ==
    /\ Len(topology) = 2
    /\ topology[1].redundancy_group = "fw-ha"
    /\ topology[2].redundancy_group = "fw-ha"
    /\ Len(alarms) = 1
    /\ alarms[1].device_id = 1 /\ alarms[1].message = str_Heartbeat_Loss
    /\ ~GOOGLE_API_KEY

C9_ScenarioB ==
    ScenarioB =>
        /\ Analyzed => (HasCandidate(1) /\ ProbOf(1) <= 80 /\ ~HasCandidate(2))
        /\ InferenceRan => inference.severity = "WARNING"

C9_Witness == ScenarioB /\ Analyzed /\ InferenceRan

(***************************************************************************)
(* C10: without an LLM key, a second analyze call on the same engine with  *)
(* the same alarms and topology returns the same list as the first and     *)
(* leaves the engine as it was.                                            *)
(***************************************************************************)
C10_AnalyzeIdempotent ==
    [][(~GOOGLE_API_KEY /\ analyze_calls >= 1 /\ analyze_calls' = analyze_calls + 1) =>
           /\ results' = results
           /\ api_configured' = api_configured
           /\ children_map' = children_map
           /\ topology' = topology]_vars

\* a second call was made, without key, on alarms of several devices
C10_Witness ==
    /\ ~GOOGLE_API_KEY
    /\ analyze_calls = 2
    /\ Len(results) >= 2
    /\ \E i \in 1..Len(results) : results[i].type = "UNKNOWN"


(***************************************************************************)
(* C11: analyze on an empty alarm list returns exactly the sentinel        *)
(* candidate (type "Normal", prob 0.0); on a non-empty alarm list it       *)
(* returns a non-empty list without a "Normal" or zero-prob entry.         *)
(***************************************************************************)
Sentinel == Candidate(SYSTEM, 0, "Normal", 0)

C11_SentinelOnlyWhenEmpty ==
    Analyzed =>
        /\ results # <<>>
        /\ alarms = <<>> => results = <<Sentinel>>
        /\ alarms # <<>> =>
               \A i \in 1..Len(results) : results[i].type # "Normal" /\ results[i].prob > 0

\* analyze has run on the empty list of an engine whose key is set
C11_Witness == Analyzed /\ alarms = <<>> /\ GOOGLE_API_KEY /\ Len(results) = 1

(***************************************************************************)
(* C12: for a non-empty alarm list the output has exactly one candidate    *)
(* for each alarmed device and for each detected silent-failure parent,    *)
(* and none for any other device.                                          *)
(***************************************************************************)
ResultIds == {results[i].id : i \in 1..Len(results)}
SilentParents == {p \in Ids(topology) : QualifiesAsSilent(p)}

C12_OneCandidatePerDevice ==
    (Analyzed /\ alarms # <<>>) =>
        /\ ResultIds = AlarmedIds \cup SilentParents
        /\ \A i, j \in 1..Len(results) : results[i].id = results[j].id => i = j

\* a silent parent is in the output next to its two alarmed children
C12_Witness ==
    /\ Analyzed
    /\ SilentParents # {}
    /\ Len(results) = 3

(***************************************************************************)
(* C13: the output is ordered by non-increasing prob; candidates of equal  *)
(* prob are in discovery order: first appearance of the device in the      *)
(* alarm list, derived silent parents after every alarmed device.          *)
(***************************************************************************)
FirstAlarmOf(d) == CHOOSE i \in 1..Len(alarms) :
                       /\ alarms[i].device_id = d
                       /\ \A j \in 1..(i - 1) : alarms[j].device_id # d

Discovery(d) == IF d \in AlarmedIds THEN FirstAlarmOf(d) ELSE Len(alarms) + 1

C13_SortedStable ==
    (Analyzed /\ alarms # <<>>) =>
        \A i, j \in 1..Len(results) :
            i < j =>
                /\ results[i].prob >= results[j].prob
                /\ results[i].prob = results[j].prob =>
                       Discovery(results[i].id) <= Discovery(results[j].id)
                /\ (results[i].prob = results[j].prob /\ results[j].id \in AlarmedIds) =>
                       Discovery(results[i].id) < Discovery(results[j].id)

\* a tie below a higher candidate that was discovered after the tied ones
C13_Witness ==
    /\ Analyzed
    /\ Len(results) = 3
    /\ results[1].prob > results[2].prob
    /\ results[2].prob = results[3].prob
    /\ Discovery(results[1].id) > Discovery(results[3].id)

(***************************************************************************)
(* C14: a topology with a parent_id that names no device of the topology   *)
(* is refused: validate_topology raises, and neither engine is built on it *)
(* and run.                                                                *)
(***************************************************************************)
HasDanglingParent ==
    \E d \in Ids(topology) :
        topology[d].parent_id # NoParent /\ topology[d].parent_id \notin Ids(topology)

C14_DanglingParentIsFatal ==
    HasDanglingParent =>
        /\ validation.called => validation.raised
        /\ ~Analyzed
        /\ ~InferenceRan

(***************************************************************************)
(* C15: simulate_cascade_failure with a root id that is not a key of the   *)
(* topology raises and returns no alarm at all; the call leaves the        *)
(* topology as it was.                                                     *)
(***************************************************************************)
C15_UnknownRootRaises ==
    /\ []((CascadeRan /\ cascade.root \notin Ids(topology)) =>
             (cascade.raised /\ cascade.out = <<>>))
    /\ [][cascade' # cascade => topology' = topology]_vars

\* the call with the unknown root was made on a topology of several devices
C15_Witness ==
    /\ CascadeRan
    /\ cascade.root \notin Ids(topology)
    /\ cascade.raised
    /\ Len(topology) >= 2

(***************************************************************************)
(* C16: analyze on the alarms of a cascade from r with the message "Power  *)
(* Supply: Dual Loss (Device Down)" over a forest has r first as the only  *)
(* candidate above 0.8; every other candidate is a descendant of r of type *)
(* Network/Unreachable below 0.5; there is no silent-failure candidate.    *)
(***************************************************************************)
DualLossCascade ==
    /\ CascadeRan
    /\ ~cascade.raised
    /\ cascade.message = str_Power_Supply_Dual_Loss_Device_Down
    /\ alarms = cascade.out
    /\ IsForest

C16_CascadeHasOneRootCause ==
    (Analyzed /\ DualLossCascade) =>
        /\ results[1].id = cascade.root
        /\ results[1].prob > 80
        /\ \A i \in 2..Len(results) :
               /\ results[i].id \in Descendants(cascade.root)
               /\ results[i].type = "Network/Unreachable"
               /\ results[i].prob < 50
        /\ \A i \in 1..Len(results) : results[i].type # "Network/SilentFailure"

\* the cascade reached a grandchild of the root and left a device outside it,
\* on an engine built on dict records
C16_Witness ==
    /\ Analyzed
    /\ DualLossCascade
    /\ Len(results) >= 3
    /\ \E d \in Descendants(cascade.root) : topology[d].parent_id # cascade.root
    /\ \E d \in Ids(topology) : d # cascade.root /\ d \notin Descendants(cascade.root)
    /\ \A d \in Ids(topology) : topology[d].is_dict

(***************************************************************************)
(* C17: when a device has a candidate with prob > 0.8, no descendant of    *)
(* it has a candidate with a strictly greater prob.                        *)
(***************************************************************************)
C17_NoDescendantAboveRootCause ==
    Analyzed =>
        \A x \in Ids(topology) :
            (HasCandidate(x) /\ ProbOf(x) > 80) =>
                \A d \in Descendants(x) : HasCandidate(d) => ProbOf(d) <= ProbOf(x)

\* a device above 0.8 with a descendant in the output that is as high as it
C17_Witness ==
    /\ Analyzed
    /\ \E x \in Ids(topology) :
           /\ HasCandidate(x) /\ ProbOf(x) > 80
           /\ \E d \in Descendants(x) : HasCandidate(d) /\ ProbOf(d) = ProbOf(x)

(***************************************************************************)
(* C18: every candidate of LogicalRCA.analyze and every candidate of       *)
(* BayesianRCA.get_ranking has 0 <= prob <= 1.                             *)
(***************************************************************************)
C18_ProbInUnitInterval ==
    /\ \A i \in 1..Len(results) : 0 <= results[i].prob /\ results[i].prob <= 100
    /\ \A i \in 1..Len(ranking) : 0 <= ranking[i].prob /\ ranking[i].prob <= 100

\* get_ranking returned a candidate at 1.0 after several evidence pairs
C18_Witness ==
    /\ Ranked
    /\ Cardinality(evidence) >= 2
    /\ \E i \in 1..Len(ranking) : ranking[i].prob = 100

(***************************************************************************)
(* C19: the evidence set of one BayesianRCA instance only grows: a pair    *)
(* passed to update_probabilities stays in it, get_ranking leaves it as it *)
(* is, and passing a pair that is already in it changes neither the set    *)
(* nor the ranking.                                                        *)
(***************************************************************************)
C19_EvidenceOnlyGrows ==
    /\ [](Updated => last_update.pair \in evidence)
    /\ [][/\ evidence \subseteq evidence'
          /\ ranking' # <<>> => evidence' = evidence
          /\ (ranking' = <<>> /\ last_update'.pair \in evidence) =>
                 (evidence' = evidence /\ get_ranking(evidence') = get_ranking(evidence))]_vars

\* "Heartbeat Loss", which always moves the ranking when it is new, was passed
\* again to a session that already held it with another pair
C19_Witness ==
    /\ Updated
    /\ last_update.pair = Ev("alarm", str_Heartbeat_Loss)
    /\ last_update.before = get_ranking(evidence)
    /\ Cardinality(evidence) >= 2
    /\ ranking = <<>>

(***************************************************************************)
(* C20: a device whose alarms of the cycle hold a power-supply failure and *)
(* a fan failure gets a candidate with prob 1.0 from analyze.              *)
(***************************************************************************)
PowerAndFanFailed(d) ==
    /\ \E m \in MessagesOf(d) : In(str_Power_Supply, m) /\ In(str_Failed, m)
    /\ \E m \in MessagesOf(d) : In(str_Fan, m) /\ In(str_Failed, m)

C20_PowerAndFanIsComposite ==
    Analyzed =>
        \A d \in AlarmedIds :
            PowerAndFanFailed(d) => (HasCandidate(d) /\ ProbOf(d) = 100)

(***************************************************************************)
(* Node-representation specification: a switch (device 1) with the other   *)
(* devices directly below it, given to LogicalRCA as dict records (as      *)
(* _load_topology reads them) or as attribute-style NetworkNode objects    *)
(* (as registry.load_topology returns them and app.py passes them in).     *)
(***************************************************************************)
StarParents(n) == [d \in 1..n |-> IF d = 1 THEN NoParent ELSE 1]

ShapeTopologies ==
    UNION {{[d \in 1..n |-> [TopologyOf(StarParents(n), NoGroups(n))[d] EXCEPT !.is_dict = as_dict]]
               : as_dict \in BOOLEAN}
           : n \in 1..ShapeMaxDev}

ShapeMessages == {str_Connection_Lost, str_Link_Down, str_Heartbeat_Loss}

InitShape ==
    /\ \E topo \in ShapeTopologies : InitEngines(topo)
    /\ GOOGLE_API_KEY = FALSE

\* the alarm source walks the topology in its order: alarms arrive grouped by device
RaiseAlarmShape ==
    \E d \in Ids(topology), m \in ShapeMessages :
        /\ \A i \in 1..Len(alarms) : alarms[i].device_id <= d
        /\ RaiseAlarm(d, m, "CRITICAL", ShapeMaxAlarms)

\* _generate_l2sw_silent_failure_alarms: "Connection Lost" from every node whose
\* parent is the switch, in topology order (the alarm list the scenario hands
\* to the engine, whichever way the engine holds the topology)
RECURSIVE ChildAlarms(_, _, _, _)
ChildAlarms(topo, l2sw_id, i, child_alarms) ==
    IF i > Len(topo) THEN child_alarms
    ELSE ChildAlarms(topo, l2sw_id, i + 1,
             IF topo[i].parent_id = l2sw_id
             THEN Append(child_alarms, Alarm(i, str_Connection_Lost, "CRITICAL"))
             ELSE child_alarms)

\* the switch of the scenario is device 1
L2SW == 1

_generate_l2sw_silent_failure_alarms(topo) == ChildAlarms(topo, L2SW, 1, <<>>)

L2swSilentScenario ==
    /\ alarms = <<>>
    /\ _generate_l2sw_silent_failure_alarms(topology) # <<>>
    /\ alarms' = _generate_l2sw_silent_failure_alarms(topology)
    /\ results' = <<>>
    /\ analyze_calls' = 0
    /\ inference' = NoInference
    /\ UNCHANGED <<evidence_iter, session_state, topology_mtime, validation, topology, children_map, GOOGLE_API_KEY, api_configured,
                   cascade, evidence, ranking, last_update>>

\* one engine.analyze(alarms) per cycle
AnalyzeShape ==
    \E genai_ok \in GenaiOutcomes, llm \in LLMOutcomes(ShapeMaxDev) : Analyze(genai_ok, llm, 1)

NextShape == RaiseAlarmShape \/ L2swSilentScenario \/ AnalyzeShape

SpecShape == InitShape /\ [][NextShape]_vars

(***************************************************************************)
(* C21: _detect_silent_failures returns parent P as a suspect if and only  *)
(* if P has at least one child in the topology, P has no alarm of its own  *)
(* in this cycle, the number of P's children with a message containing     *)
(* "Connection Lost", "Link Down", "Port Down" or "Unreachable" is at      *)
(* least SILENT_MIN_CHILDREN, and that number over P's child count is at   *)
(* least SILENT_RATIO.                                                     *)
(***************************************************************************)
SilentSuspects == Keys(_detect_silent_failures(BuildMsgMap(alarms, 1, <<>>)))

MeetsSilentThresholds(p) ==
    /\ ChildrenOf(p) # {}
    /\ p \notin AlarmedIds
    /\ Cardinality(AffectedChildren(p)) >= SILENT_MIN_CHILDREN
    /\ Cardinality(AffectedChildren(p)) * 100 >= SILENT_RATIO * Cardinality(ChildrenOf(p))

C21_SuspectIffThresholds ==
    Analyzed =>
        \A p \in Ids(topology) : p \in SilentSuspects <=> MeetsSilentThresholds(p)

(***************************************************************************)
(* C23: when the first alarmed device of minimal layer belongs to          *)
(* redundancy group G, analyze_alarms returns severity CRITICAL with       *)
(* sop_key HA_TOTAL_FAILURE if and only if every topology node of G has an *)
(* alarm in the input, and severity WARNING with sop_key                   *)
(* HA_PARTIAL_FAILURE otherwise, whatever severities the alarms carry.     *)
(***************************************************************************)
TopDevice == TopAlarm(alarms).device_id

TopDeviceInGroup ==
    /\ alarms # <<>>
    /\ TopDevice \in Ids(topology)
    /\ topology[TopDevice].redundancy_group # NoGroup

C23_GroupSeverityByCoverage ==
    (InferenceRan /\ TopDeviceInGroup) =>
        IF Members(topology[TopDevice].redundancy_group) \subseteq AlarmedIds
        THEN inference.severity = "CRITICAL" /\ inference.sop_key = "HA_TOTAL_FAILURE"
        ELSE inference.severity = "WARNING" /\ inference.sop_key = "HA_PARTIAL_FAILURE"

\* a group of two, both members alarmed with nothing but warnings: CRITICAL
C23_Witness ==
    /\ InferenceRan /\ TopDeviceInGroup
    /\ Cardinality(Members(topology[TopDevice].redundancy_group)) = 2
    /\ Members(topology[TopDevice].redundancy_group) \subseteq AlarmedIds
    /\ \A i \in 1..Len(alarms) : alarms[i].severity = "WARNING"
    /\ inference.severity = "CRITICAL"

(***************************************************************************)
(* C24: analyze_alarms returns a SILENT_FAILURE result naming parent P as  *)
(* root cause only when P itself has no alarm in the input and at least    *)
(* two of P's children are alarmed; a single alarm on an only child never  *)
(* blames the parent.                                                      *)
(***************************************************************************)
C24_SilentFailureNeedsTwoChildren ==
    (InferenceRan /\ inference.sop_key = "SILENT_FAILURE") =>
        /\ inference.root_cause_node \notin AlarmedIds
        /\ Cardinality(ChildrenOf(inference.root_cause_node) \cap AlarmedIds) >= 2

(***************************************************************************)
(* C25: simulate_cascade_failure terminates for every finite topology and  *)
(* every root in it, also when the parent_id references form a cycle       *)
(* (possibly through the root): each node is enqueued and alarmed at most  *)
(* once, the root never receives a second (WARNING) alarm, and the alarms  *)
(* are emitted in breadth-first order (a node's alarm precedes the alarms  *)
(* of all its children).                                                   *)
(***************************************************************************)
\* parent hops from d up to the root of the cascade (999: the root is not above d)
RECURSIVE HopsWithin(_, _, _)
HopsWithin(d, r, fuel) ==
    IF d = r THEN 0
    ELSE IF fuel = 0 \/ topology[d].parent_id \notin Ids(topology) THEN 999
    ELSE 1 + HopsWithin(topology[d].parent_id, r, fuel - 1)

Hops(d) == HopsWithin(d, cascade.root, Len(topology))

CascadeOnce ==
    LET out == cascade.out
        r == cascade.root
    IN  /\ ~cascade.raised
        /\ \A d \in Ids(topology) : Cardinality(AlarmsAt(out, d)) <= 1
        /\ out[1].device_id = r /\ out[1].severity = "CRITICAL"
        /\ \A i \in 2..Len(out) : out[i].device_id # r /\ out[i].severity = "WARNING"

\* the statement as it stands: every alarmed child comes after its alarmed parent
C25_CascadeBreadthFirst ==
    (CascadeRan /\ cascade.root \in Ids(topology)) =>
        /\ CascadeOnce
        /\ \A i, j \in 1..Len(cascade.out) :
               topology[cascade.out[j].device_id].parent_id = cascade.out[i].device_id => i < j

\* breadth-first order with the root first: the alarms come by increasing
\* distance from the root, and every alarmed child other than the root comes
\* after its parent
C25_CascadeBreadthFirstFromRoot ==
    (CascadeRan /\ cascade.root \in Ids(topology)) =>
        /\ CascadeOnce
        /\ \A i, j \in 1..Len(cascade.out) :
               i < j => Hops(cascade.out[i].device_id) <= Hops(cascade.out[j].device_id)
        /\ \A i \in 1..Len(cascade.out), j \in 2..Len(cascade.out) :
               topology[cascade.out[j].device_id].parent_id = cascade.out[i].device_id => i < j

\* a cascade from a root that lies on a cycle of three, with a fourth device below it
C25_Witness ==
    /\ CascadeRan /\ cascade.root \in Ids(topology)
    /\ cascade.root \in Ancestors(cascade.root)
    /\ topology[topology[cascade.root].parent_id].parent_id # cascade.root
    /\ topology[cascade.root].parent_id # cascade.root
    /\ Len(cascade.out) = 4

(***************************************************************************)
(* Power-supply specification: one device, as a dict record or an object,  *)
(* with or without a PSU inventory and a redundancy type, with or without  *)
(* an API key for the LLM                                                  *)
(***************************************************************************)
RedundancyTypes == {"", "PSU"}

PsuTopologies ==
    {<<[Node(1, NoParent, 1, NoGroup) EXCEPT !.psu_count = c, !.redundancy_type = t, !.is_dict = as_dict]>>
        : c \in PsuCounts, t \in RedundancyTypes, as_dict \in BOOLEAN}

\* a single power-supply failure, a fan failure, an alarm no local rule
\* decides, and the hard-down alarm
PsuMessages ==
    {str_Power_Supply_1_Failed, str_Fan_Module_Failed, str_Heartbeat_Loss,
     str_Power_Supply_Dual_Loss_Device_Down}

InitPsu ==
    /\ \E topo \in PsuTopologies : InitEngines(topo)
    /\ GOOGLE_API_KEY \in BOOLEAN

RaiseAlarmPsu ==
    \E d \in Ids(topology), m \in PsuMessages : RaiseAlarm(d, m, "WARNING", PsuMaxAlarms)

\* one engine.analyze(alarms) per cycle
AnalyzePsu ==
    \E genai_ok \in GenaiOutcomes, llm \in LLMOutcomes(1) : Analyze(genai_ok, llm, 1)

NextPsu == RaiseAlarmPsu \/ AnalyzePsu

SpecPsu == InitPsu /\ [][NextPsu]_vars

(***************************************************************************)
(* C26: single power-supply rule.  For a device whose joined alarm text    *)
(* reports a power-supply failure and contains none of "Dual", "Device     *)
(* Down", "Thermal Shutdown", the status is WARNING (prob 0.7, type        *)
(* Hardware/Redundancy) if and only if the PSU count is at least 2, and    *)
(* CRITICAL (prob 0.9, type Hardware/Physical) otherwise; the PSU count is *)
(* metadata.hw_inventory.psu_count when present, else 2 when               *)
(* metadata.redundancy_type is "PSU", else 1.  The decision is taken       *)
(* before, and independently of, any LLM call.                             *)
(***************************************************************************)
JoinedText(d) == join(Get(BuildMsgMap(alarms, 1, <<>>), d, <<>>))

SinglePsuFailure(d) ==
    /\ \/ In(str_Power_Supply, JoinedText(d)) /\ In(str_Failed, JoinedText(d))
       \/ In(str_PSU, JoinedText(d)) /\ In(str_Fail, JoinedText(d))
    /\ ~In(str_Dual, JoinedText(d))
    /\ ~In(str_Device_Down, JoinedText(d))
    /\ ~In(str_Thermal_Shutdown, JoinedText(d))

PsuCountOf(d) ==
    IF topology[d].psu_count # 0 THEN topology[d].psu_count
    ELSE IF topology[d].redundancy_type = "PSU" THEN 2
    ELSE 1

\* the rule's outcome for device d whatever the API flag, the outcome of the
\* API configuration and the reply of the LLM would be; the flag is returned
\* as it was passed, so no configuration was attempted
PsuDecidedLocally(d, status, impact_type) ==
    \A flag \in BOOLEAN, genai_ok \in BOOLEAN, reply \in LLMReplies :
        LET a == analyze_redundancy_depth(d, Get(BuildMsgMap(alarms, 1, <<>>), d, <<>>),
                                          flag, genai_ok, reply)
        IN  a.status = status /\ a.impact_type = impact_type /\ a.flag = flag

L2swScenarioAnalyzed ==
    /\ Analyzed
    /\ alarms = _generate_l2sw_silent_failure_alarms(topology)
    /\ Cardinality(ChildrenOf(L2SW)) >= SILENT_MIN_CHILDREN

C28_SilentFailureForEitherRepresentation ==
    L2swScenarioAnalyzed =>
        /\ HasCandidate(L2SW)
        /\ results[RankOf(L2SW)].type = "Network/SilentFailure"

\* the same statement for dict records only
C28_SilentFailureForDictRecords ==
    (L2swScenarioAnalyzed /\ \A d \in Ids(topology) : topology[d].is_dict) =>
        /\ HasCandidate(L2SW)
        /\ results[RankOf(L2SW)].type = "Network/SilentFailure"

(***************************************************************************)
(* app.py: the Streamlit page.  Every browser session has its own          *)
(* st.session_state and runs the page script from the top on every user    *)
(* event, one run at a time; runs of different sessions interleave.        *)
(*   pc of a session: "idle"    waiting for a user event                   *)
(*                    "top"     at the top of a page run                   *)
(*                    "ratio"   before line 956 (engine.SILENT_RATIO = ..) *)
(*                    "analyze" before line 957 (engine.analyze(alarms))   *)
(*                    "display" in the cockpit part of the page            *)
(***************************************************************************)
\* a character outside ASCII is written as the token of its code point
str_tenant_A == <<"A">>
str_tenant_B == <<"B">>
str_default == <<"d","e","f","a","u","l","t">>
str_scenario_normal == <<"U6B63","U5E38","U7A3C","U50CD">>
str_scenario_wan_outage == <<"1","."," ","W","A","N","U5168","U56DE","U7DDA","U65AD">>
str_scenario_l2sw_silent == <<"3","."," ","L","2","S","W","U30B5","U30A4","U30EC","U30F3","U30C8","U969C","U5BB3">>
str_silent == <<"U30B5","U30A4","U30EC","U30F3","U30C8">>

Scope(tenant, network) == [tenant |-> tenant, network |-> network]

\* selected_scope = None
NoScope == Scope(<<>>, <<>>)

\* the tenant/network pairs of the registry, in list_tenants / list_networks order
AppScopes == <<Scope(str_tenant_A, str_default), Scope(str_tenant_B, str_default)>>

ScopeIndex(scope) == CHOOSE i \in 1..Len(AppScopes) : AppScopes[i] = scope

\* str() of a float holding a whole number: digits, ".0"
Digits == <<"0","1","2","3","4","5","6","7","8","9">>

RECURSIVE IntStr(_)
IntStr(n) == IF n < 10 THEN <<Digits[n + 1]>> ELSE IntStr(n \div 10) \o <<Digits[(n % 10) + 1]>>

FloatStr(m) == IntStr(m) \o <<".","0">>

\* variant of the signature that leaves the modification time out
engine_sig_NoMtime(scope, topo_mtime) ==
    scope.tenant \o <<"/">> \o scope.network

\* engine_sig = f"{ACTIVE_TENANT}/{ACTIVE_NETWORK}:{topo_mtime}"
engine_sig(scope, topo_mtime) ==
    scope.tenant \o <<"/">> \o scope.network \o <<":">> \o FloatStr(topo_mtime)

\* st.session_state.logic_engine: the scope and the modification time of the
\* topology file it was constructed from, and its SILENT_RATIO attribute
NoEngine == [exists |-> FALSE, built_for |-> NoScope, built_at |-> 0, SILENT_RATIO |-> SILENT_RATIO]

LogicalRCA_new(scope, topo_mtime) ==
    [exists |-> TRUE, built_for |-> scope, built_at |-> topo_mtime, SILENT_RATIO |-> SILENT_RATIO]

\* an incident artefact of the session (report, plan, diagnostic result, chat
\* message), with the scenario and the scope of the run that produced it
Artefact(scenario, scope) == [scenario |-> scenario, scope |-> scope]

NoArtefact == Artefact(<<>>, NoScope)

\* the analyze call of the current run: the engine it ran on, as it was then
NoAnalysis == [ran |-> FALSE, engine |-> NoEngine]

NewSession ==
    [current_scenario |-> str_scenario_normal,
     selected_scope |-> NoScope,
     logic_engine |-> NoEngine,
     logic_engine_sig |-> <<>>,
     live_result |-> NoArtefact,
     messages |-> <<>>,
     generated_report |-> NoArtefact,
     remediation_plan |-> NoArtefact,
     selected_scenario |-> str_scenario_normal,   \* value of the sidebar radio
     click |-> "none",                            \* the button or input that caused this run
     auto_remediate |-> FALSE,
     ACTIVE |-> NoScope,                          \* ACTIVE_TENANT, ACTIVE_NETWORK of this run
     topo_mtime |-> 0,                            \* topo_mtime of this run
     analysis |-> NoAnalysis,
     pc |-> "idle"]

\* browser sessions that have not run the page yet; the engines of the
\* other specifications are not in use
InitApp(sessions) ==
    /\ session_state = sessions
    /\ topology_mtime = [i \in 1..Len(AppScopes) |-> 1]
    /\ topology = <<>>
    /\ children_map = <<>>
    /\ GOOGLE_API_KEY = TRUE
    /\ api_configured = FALSE
    /\ alarms = <<>>
    /\ results = <<>>
    /\ analyze_calls = 0
    /\ inference = NoInference
    /\ cascade = NoCascade
    /\ evidence = {}
    /\ ranking = <<>>
    /\ last_update = NoUpdate
    /\ validation = NoValidation
    /\ evidence_iter = <<>>

EngineVars == <<topology, children_map, GOOGLE_API_KEY, api_configured, alarms, results,
                analyze_calls, inference, cascade, evidence, ranking, last_update, validation,
                evidence_iter>>

\* a user event of session s starts a page run
StartRun(s, ss) ==
    /\ session_state[s].pc = "idle"
    /\ session_state' = [session_state EXCEPT ![s] = [ss EXCEPT !.pc = "top", !.analysis = NoAnalysis]]
    /\ UNCHANGED <<topology_mtime, EngineVars>>

\* the user picks a scenario in the sidebar radio (line 885)
SelectScenario(s, scenario) ==
    /\ scenario # session_state[s].selected_scenario
    /\ StartRun(s, [session_state[s] EXCEPT !.selected_scenario = scenario, !.click = "none"])

\* the user picks a company/network on the board:
\* st.session_state.selected_scope = {...}; st.rerun()
SelectScope(s, scope) ==
    /\ scope # session_state[s].selected_scope
    /\ StartRun(s, [session_state[s] EXCEPT !.selected_scope = scope, !.click = "none"])

\* the topology file of a tenant/network is rewritten between page runs
TouchTopology(i, max) ==
    /\ \A s \in DOMAIN session_state : session_state[s].pc = "idle"
    /\ topology_mtime[i] < max
    /\ topology_mtime' = [topology_mtime EXCEPT ![i] = @ + 1]
    /\ UNCHANGED <<session_state, EngineVars>>

\* lines 914-925: the active tenant/network of the run
ResolveScope(ss) ==
    IF ss.selected_scope # NoScope /\ ss.selected_scope.tenant # <<>> /\ ss.selected_scope.network # <<>>
    THEN [ss EXCEPT !.ACTIVE = ss.selected_scope]
    ELSE [ss EXCEPT !.ACTIVE = AppScopes[1], !.selected_scope = AppScopes[1]]

\* registry.load_topology(get_paths(tenant, network).topology_path): the
\* topology read from the file as it is now; a file is identified by its
\* scope and its content by the modification time of the file
load_topology(scope) ==
    [scope |-> scope, mtime |-> topology_mtime[ScopeIndex(scope)]]

\* lines 927-941: TOPOLOGY = load_topology(...), engine_sig, and the engine
\* rebuilt from TOPOLOGY when the stored signature differs
ReloadEngine(ss) ==
    LET TOPOLOGY == load_topology(ss.ACTIVE)
        m == topology_mtime[ScopeIndex(ss.ACTIVE)]
        sig == engine_sig(ss.ACTIVE, m)
    IN  IF ss.logic_engine_sig # sig
        THEN [ss EXCEPT !.topo_mtime = m,
                        !.logic_engine = LogicalRCA_new(TOPOLOGY.scope, TOPOLOGY.mtime),
                        !.logic_engine_sig = sig]
        ELSE [ss EXCEPT !.topo_mtime = m]

\* lines 943-949: a new scenario clears the artefacts of the old one and reruns
ResetScenario(ss) ==
    IF ss.current_scenario # ss.selected_scenario
    THEN [ss EXCEPT !.current_scenario = ss.selected_scenario,
                    !.messages = <<>>,
                    !.live_result = NoArtefact,
                    !.generated_report = NoArtefact,
                    !.remediation_plan = NoArtefact,
                    !.click = "none",
                    !.pc = "top"]
    ELSE [ss EXCEPT !.pc = "ratio"]

\* lines 914-949 of one page run
RunTop(s) ==
    /\ session_state[s].pc = "top"
    /\ session_state' = [session_state EXCEPT ![s] = ResetScenario(ReloadEngine(ResolveScope(@)))]
    /\ UNCHANGED <<topology_mtime, EngineVars>>

\* variant of line 956 that sets the attribute on the class: every engine
\* without an attribute of its own sees it
SetRatio_OnClass(s) ==
    LET ratio == IF In(str_silent, session_state[s].selected_scenario) THEN 30 ELSE 50
    IN  /\ session_state[s].pc = "ratio"
        /\ session_state' = [t \in DOMAIN session_state |->
               [session_state[t] EXCEPT !.logic_engine.SILENT_RATIO = ratio,
                                        !.pc = IF t = s THEN "analyze" ELSE @]]
        /\ UNCHANGED <<topology_mtime, EngineVars>>

\* line 956: engine.SILENT_RATIO = 0.3 if "サイレント" in selected_scenario else 0.5
SetRatio(s) ==
    LET ratio == IF In(str_silent, session_state[s].selected_scenario) THEN 30 ELSE 50
    IN  /\ session_state[s].pc = "ratio"
        /\ session_state' = [session_state EXCEPT ![s].logic_engine.SILENT_RATIO = ratio,
                                                  ![s].pc = "analyze"]
        /\ UNCHANGED <<topology_mtime, EngineVars>>

\* line 957: analysis_results = engine.analyze(alarms)
CallAnalyze(s) ==
    /\ session_state[s].pc = "analyze"
    /\ session_state' = [session_state EXCEPT
           ![s].analysis = [ran |-> TRUE, engine |-> session_state[s].logic_engine],
           ![s].pc = "display"]
    /\ UNCHANGED <<topology_mtime, EngineVars>>

\* the page run ends without a button having fired
EndRun(s) ==
    /\ session_state[s].pc = "display"
    /\ session_state' = [session_state EXCEPT ![s].pc = "idle", ![s].click = "none"]
    /\ UNCHANGED <<topology_mtime, EngineVars>>

AppScenarios == {str_scenario_normal, str_scenario_wan_outage, str_scenario_l2sw_silent}

(***************************************************************************)
(* Multi-tenant specification: several sessions, each looking at one       *)
(* tenant and holding its own cached engine, pick scenarios and run the    *)
(* page; their runs interleave line by line around the analyze call.       *)
(***************************************************************************)
InitTenants ==
    \E n \in 1..MaxSessions :
        InitApp([s \in 1..n |-> [NewSession EXCEPT !.selected_scope = AppScopes[((s - 1) % Len(AppScopes)) + 1]]])

SelectScenarioTenants == \E s \in DOMAIN session_state, scenario \in AppScenarios : SelectScenario(s, scenario)
RunTopTenants == \E s \in DOMAIN session_state : RunTop(s)
SetRatioTenants == \E s \in DOMAIN session_state : SetRatio(s)
CallAnalyzeTenants == \E s \in DOMAIN session_state : CallAnalyze(s)
EndRunTenants == \E s \in DOMAIN session_state : EndRun(s)

NextTenants ==
    SelectScenarioTenants \/ RunTopTenants \/ SetRatioTenants \/ CallAnalyzeTenants \/ EndRunTenants

SpecTenants == InitTenants /\ [][NextTenants]_vars

(***************************************************************************)
(* C22: no stale or leaked tunable.  Across any interleaving of page runs  *)
(* of several sessions, each with its own cached LogicalRCA instance, the  *)
(* SILENT_RATIO in effect during an analyze call is the one chosen for     *)
(* that run's scenario (0.3 if the name contains the word for "silent",    *)
(* otherwise 0.5); a value set by an earlier run on the same engine or by  *)
(* a run on another engine never affects it.                               *)
(***************************************************************************)
RatioOfScenario(scenario) == IF In(str_silent, scenario) THEN 30 ELSE 50

C22_RatioIsTheRunsOwn ==
    \A s \in DOMAIN session_state :
        session_state[s].analysis.ran =>
            session_state[s].analysis.engine.SILENT_RATIO
                = RatioOfScenario(session_state[s].selected_scenario)

\* two sessions, each on its own engine for its own tenant, have analysed in
\* their current runs with different ratios
C22_Witness ==
    /\ Len(session_state) >= 2
    /\ session_state[1].analysis.ran /\ session_state[2].analysis.ran
    /\ session_state[1].analysis.engine.SILENT_RATIO = 30
    /\ session_state[2].analysis.engine.SILENT_RATIO = 50
    /\ session_state[2].current_scenario = str_scenario_wan_outage
    /\ session_state[2].logic_engine_sig = engine_sig(AppScopes[2], 1)

(***************************************************************************)
(* Hot-reload specification: one session whose user changes the scenario   *)
(* and the company/network, while topology files are rewritten between the *)
(* page runs                                                               *)
(***************************************************************************)
InitReload == InitApp(<<NewSession>>)

SelectScenarioReload == \E scenario \in AppScenarios : SelectScenario(1, scenario)
SelectScopeReload == \E i \in 1..Len(AppScopes) : SelectScope(1, AppScopes[i])
TouchTopologyReload == \E i \in 1..Len(AppScopes) : TouchTopology(i, MaxMtime)
RunTopReload == RunTop(1)
SetRatioReload == SetRatio(1)
CallAnalyzeReload == CallAnalyze(1)
EndRunReload == EndRun(1)

NextReload ==
    \/ SelectScenarioReload \/ SelectScopeReload \/ TouchTopologyReload
    \/ RunTopReload \/ SetRatioReload \/ CallAnalyzeReload \/ EndRunReload

SpecReload == InitReload /\ [][NextReload]_vars

(***************************************************************************)
(* C27: engine hot-reload.  Across any sequence of page runs between which *)
(* the active tenant/network and the modification time of the topology     *)
(* file may change, the engine used by a run's analyze call was            *)
(* constructed from the topology of that run's active tenant/network at    *)
(* that run's modification time; the cached engine is replaced exactly     *)
(* when the signature tenant/network:mtime differs from the stored         *)
(* signature and is reused unchanged otherwise.                            *)
(***************************************************************************)
\* past lines 914-941 of a run, the run's scope is the selected one and the
\* run's modification time is that of the scope's topology file
RunKnowsItsTopology(ss) ==
    ss.pc \in {"ratio", "analyze", "display"} =>
        /\ ss.ACTIVE = ss.selected_scope
        /\ ss.topo_mtime = topology_mtime[ScopeIndex(ss.ACTIVE)]

AnalyzedOnOwnTopology(ss) ==
    ss.analysis.ran =>
        /\ ss.analysis.engine.exists
        /\ ss.analysis.engine.built_for = ss.ACTIVE
        /\ ss.analysis.engine.built_at = ss.topo_mtime

\* lines 914-941 of a run: the engine is a new one, built for the run, when
\* the stored signature is not the run's, and the stored one otherwise
ReplacedExactlyOnNewSignature(s) ==
    (session_state[s].pc = "top" /\ session_state'[s] # session_state[s]) =>
        LET before == session_state[s]
            after == session_state'[s]
            sig == engine_sig(after.ACTIVE, after.topo_mtime)
        IN  /\ after.logic_engine_sig = sig
            /\ IF before.logic_engine_sig # sig
               THEN /\ after.logic_engine # before.logic_engine
                    /\ after.logic_engine = LogicalRCA_new(after.ACTIVE, after.topo_mtime)
               ELSE after.logic_engine = before.logic_engine

C27_EngineHotReload ==
    /\ [](\A s \in DOMAIN session_state :
            RunKnowsItsTopology(session_state[s]) /\ AnalyzedOnOwnTopology(session_state[s]))
    /\ [][\A s \in DOMAIN session_state : ReplacedExactlyOnNewSignature(s)]_vars

\* the second company's network analysed after its topology file was rewritten
C27_Witness ==
    /\ session_state[1].analysis.ran
    /\ session_state[1].ACTIVE = AppScopes[2]
    /\ session_state[1].topo_mtime = MaxMtime
    /\ session_state[1].analysis.engine.built_at = MaxMtime
    /\ session_state[1].analysis.engine.built_for = AppScopes[2]

(***************************************************************************)
(* Cockpit specification: one session whose user changes the scenario and  *)
(* the company/network and uses the buttons and the chat input of the      *)
(* incident cockpit (lines 1040-1176)                                      *)
(***************************************************************************)
CockpitClicks == {"diagnose", "report", "regenerate", "plan", "cancel", "chat"}

\* the candidate the cockpit shows for the run: none, one of prob <= 0.6, or
\* one of prob > 0.6 (lines 959-1034)
IncidentCandidates == {"none", "low", "high"}

InitCockpit == InitApp(<<NewSession>>)

\* a button of the cockpit, or the chat input
ClickButton(s, b) ==
    StartRun(s, [session_state[s] EXCEPT !.click = b])

\* the action button of a board row (lines 658-666)
SelectScopeAuto(s, scope) ==
    StartRun(s, [session_state[s] EXCEPT !.selected_scope = scope, !.auto_remediate = TRUE,
                                         !.click = "none"])

\* lines 1046-1060: the diagnostics button
RunDiagnostics(ss, tag) ==
    [ss EXCEPT !.live_result = IF GOOGLE_API_KEY THEN tag ELSE @,
               !.click = "none", !.pc = "top"]

\* lines 1077-1111: the report of the shown candidate; [ss, rerun]
ReportPanel(ss, tag, cand, llm_ok) ==
    IF cand = "none" THEN [ss |-> ss, rerun |-> FALSE]
    ELSE IF ss.generated_report = NoArtefact
    THEN IF GOOGLE_API_KEY /\ ss.selected_scenario # str_scenario_normal
            /\ ss.click = "report" /\ llm_ok
         THEN [ss |-> [ss EXCEPT !.generated_report = tag], rerun |-> FALSE]
         ELSE [ss |-> ss, rerun |-> FALSE]
    ELSE IF ss.click = "regenerate"
    THEN [ss |-> [ss EXCEPT !.generated_report = NoArtefact], rerun |-> TRUE]
    ELSE [ss |-> ss, rerun |-> FALSE]

\* lines 1116-1150: the remediation plan; [ss, rerun]
RemediationPanel(ss, tag, cand) ==
    LET auto == ss.auto_remediate /\ cand = "high"
        s1 == [ss EXCEPT !.auto_remediate = FALSE]
    IN  IF cand # "high" THEN [ss |-> s1, rerun |-> FALSE]
        ELSE IF auto
        THEN [ss |-> [s1 EXCEPT !.remediation_plan = tag], rerun |-> TRUE]
        ELSE IF s1.remediation_plan = NoArtefact
        THEN IF s1.click = "plan" /\ GOOGLE_API_KEY
             THEN [ss |-> [s1 EXCEPT !.remediation_plan = tag], rerun |-> TRUE]
             ELSE [ss |-> s1, rerun |-> FALSE]
        ELSE IF s1.click = "cancel"
        THEN [ss |-> [s1 EXCEPT !.remediation_plan = NoArtefact], rerun |-> TRUE]
        ELSE [ss |-> s1, rerun |-> FALSE]

\* lines 1152-1172: the chat
ChatPanel(ss, tag, max) ==
    IF ss.click = "chat" /\ Len(ss.messages) < max
    THEN [ss EXCEPT !.messages = Append(@, tag)]
    ELSE ss

\* lines 1040-1176 of one page run: st.rerun() ends the run and starts the next
Cockpit(ss, cand, llm_ok, max) ==
    LET tag == Artefact(ss.selected_scenario, ss.ACTIVE)
        Rerun(x) == [x EXCEPT !.click = "none", !.pc = "top"]
    IN  IF ss.click = "diagnose" THEN RunDiagnostics(ss, tag)
        ELSE LET r == ReportPanel(ss, tag, cand, llm_ok)
             IN  IF r.rerun THEN Rerun(r.ss)
                 ELSE LET m == RemediationPanel(r.ss, tag, cand)
                      IN  IF m.rerun THEN Rerun(m.ss)
                          ELSE [ChatPanel(m.ss, tag, max) EXCEPT !.click = "none", !.pc = "idle"]

Display(s, cand, llm_ok, max) ==
    /\ session_state[s].pc = "display"
    /\ session_state' = [session_state EXCEPT ![s] = Cockpit(@, cand, llm_ok, max)]
    /\ UNCHANGED <<topology_mtime, EngineVars>>

SelectScenarioCockpit == \E scenario \in AppScenarios : SelectScenario(1, scenario)
SelectScopeCockpit == \E i \in 1..Len(AppScopes) : SelectScope(1, AppScopes[i])
SelectScopeAutoCockpit == \E i \in 1..Len(AppScopes) : SelectScopeAuto(1, AppScopes[i])
ClickButtonCockpit == \E b \in CockpitClicks : ClickButton(1, b)
RunTopCockpit == RunTop(1)
SetRatioCockpit == SetRatio(1)
CallAnalyzeCockpit == CallAnalyze(1)
DisplayCockpit == \E cand \in IncidentCandidates, llm_ok \in BOOLEAN : Display(1, cand, llm_ok, MaxMessages)

NextCockpit ==
    \/ SelectScenarioCockpit \/ SelectScopeCockpit \/ SelectScopeAutoCockpit \/ ClickButtonCockpit
    \/ RunTopCockpit \/ SetRatioCockpit \/ CallAnalyzeCockpit \/ DisplayCockpit

SpecCockpit == InitCockpit /\ [][NextCockpit]_vars

(***************************************************************************)
(* C30: no stale incident artefacts in the app session.  After any         *)
(* sequence of scenario selections and tenant/network selections, a        *)
(* non-empty generated_report, remediation_plan, live_result or chat       *)
(* history held in session state was produced for the currently selected   *)
(* scenario and the currently active tenant/network; changing either       *)
(* clears them before the next display.                                    *)
(***************************************************************************)
ProducedFor(artefact, ss) ==
    artefact # NoArtefact =>
        artefact.scenario = ss.selected_scenario /\ artefact.scope = ss.ACTIVE

NoStaleArtefacts(ss) ==
    /\ ProducedFor(ss.generated_report, ss)
    /\ ProducedFor(ss.remediation_plan, ss)
    /\ ProducedFor(ss.live_result, ss)
    /\ \A i \in 1..Len(ss.messages) : ProducedFor(ss.messages[i], ss)

C30_NoStaleArtefacts ==
    \A s \in DOMAIN session_state :
        session_state[s].pc = "display" => NoStaleArtefacts(session_state[s])

\* the half of C30 that is about the scenario
ProducedForScenario(artefact, ss) ==
    artefact # NoArtefact => artefact.scenario = ss.selected_scenario

C30_NoArtefactOfAnotherScenario ==
    \A s \in DOMAIN session_state :
        LET ss == session_state[s]
        IN  ss.pc = "display" =>
                /\ ProducedForScenario(ss.generated_report, ss)
                /\ ProducedForScenario(ss.remediation_plan, ss)
                /\ ProducedForScenario(ss.live_result, ss)
                /\ \A i \in 1..Len(ss.messages) : ProducedForScenario(ss.messages[i], ss)

(***************************************************************************)
(* bayes_engine.py in floating point.  get_ranking adds Python floats      *)
(* (IEEE-754 binary64, round to nearest, ties to even) in the iteration    *)
(* order of the set self.evidence.  A value between 0 and 4 is held        *)
(* exactly, in units of 2^-57, as two limbs: value = (hi * 2^30 + lo) /    *)
(* 2^57.                                                                   *)
(***************************************************************************)
Limb == 2^30

F64(hi, lo) == [hi |-> hi, lo |-> lo]

\* the literals of get_ranking as binary64 values
f64_0_0 == F64(0, 0)
f64_0_05 == F64(6710886, 429496730)     \* 0x3FA999999999999A
f64_0_1 == F64(13421772, 858993460)     \* 0x3FB999999999999A
f64_0_4 == F64(53687091, 214748368)     \* 0x3FD999999999999A
f64_0_5 == F64(67108864, 0)             \* 0x3FE0000000000000
f64_0_6 == F64(80530636, 858993456)     \* 0x3FE3333333333333
f64_1_0 == F64(134217728, 0)            \* 0x3FF0000000000000

\* the spacing of the binary64 numbers around a value, in units of 2^-57
Ulp(hi) ==
    IF hi >= 2^28 THEN 64         \* [2, 4)
    ELSE IF hi >= 2^27 THEN 32    \* [1, 2)
    ELSE IF hi >= 2^26 THEN 16    \* [1/2, 1)
    ELSE IF hi >= 2^25 THEN 8     \* [1/4, 1/2)
    ELSE IF hi >= 2^24 THEN 4     \* [1/8, 1/4)
    ELSE IF hi >= 2^23 THEN 2     \* [1/16, 1/8)
    ELSE 1

\* round to nearest, ties to even
RoundF64(hi, lo) ==
    LET g == Ulp(hi)
        r == lo % g
        down == lo - r
        up == down + g
        to == IF 2 * r < g THEN down
              ELSE IF 2 * r > g THEN up
              ELSE IF (down \div g) % 2 = 0 THEN down
              ELSE up
    IN  IF to = Limb THEN F64(hi + 1, 0) ELSE F64(hi, to)

\* a + b on floats
f64_add(a, b) ==
    LET lo == a.lo + b.lo
    IN  RoundF64(a.hi + b.hi + (lo \div Limb), lo % Limb)

\* a > b on floats
f64_gt(a, b) == a.hi > b.hi \/ (a.hi = b.hi /\ a.lo > b.lo)

\* min(a, b)
f64_min(a, b) == IF f64_gt(a, b) THEN b ELSE a

\* for ev_type, ev_val in self.evidence: score += 0.4 on an exact match,
\* score += 0.05 on a match of the type
RECURSIVE ScoreLoopF64(_, _, _, _)
ScoreLoopF64(order, expected, i, score) ==
    IF i > Len(order) THEN score
    ELSE ScoreLoopF64(order, expected, i + 1,
             IF order[i] \in expected THEN f64_add(score, f64_0_4)
             ELSE IF \E s \in expected : s.type = order[i].type THEN f64_add(score, f64_0_05)
             ELSE score)

\* the score of one candidate: [listed, entry]
ScoreOfF64(cand, order) ==
    LET ev == Elems(order)
        expected == Elems(ExpectedSymptoms(cand))
        match_count == Cardinality({e \in ev : e \in expected})
        summed == ScoreLoopF64(order, expected, 1, f64_0_0)
        with_fw == IF cand[1] = "FW_01_PRIMARY" /\ (\E e \in ev : e.value = str_Heartbeat_Loss)
                   THEN f64_add(summed, f64_0_5) ELSE summed
        with_ap == IF cand[1] = "AP_01" /\ (\E e \in ev : e.value = str_Connection_Lost)
                   THEN f64_add(with_fw, f64_0_5) ELSE with_fw
        score == IF cand[2] = "Hardware/Critical_Multi_Fail"
                    /\ Cardinality({e \in ev : In(str_Fail, e.value)}) >= 2
                 THEN f64_add(with_ap, f64_0_6) ELSE with_ap
        final_prob == f64_min(score, f64_1_0)
    IN  [listed |-> expected # {} /\ f64_gt(final_prob, f64_0_1),
         entry |-> [id |-> cand[1], type |-> cand[2], prob |-> final_prob, matched |-> match_count]]

RECURSIVE RankLoopF64(_, _, _, _)
RankLoopF64(cands, order, i, acc) ==
    IF i > Len(cands) THEN acc
    ELSE LET s == ScoreOfF64(cands[i], order)
         IN  RankLoopF64(cands, order, i + 1, IF s.listed THEN Append(acc, s.entry) ELSE acc)

\* list.sort(key=prob, reverse=True) on floats
RECURSIVE InsertByProbF64(_, _)
InsertByProbF64(sorted, c) ==
    IF Len(sorted) = 0 THEN <<c>>
    ELSE IF ~f64_gt(c.prob, sorted[Len(sorted)].prob) THEN Append(sorted, c)
    ELSE Append(InsertByProbF64(SubSeq(sorted, 1, Len(sorted) - 1), c), sorted[Len(sorted)])

RECURSIVE SortByProbDescF64(_, _, _)
SortByProbDescF64(list, i, acc) ==
    IF i > Len(list) THEN acc
    ELSE SortByProbDescF64(list, i + 1, InsertByProbF64(acc, list[i]))

SentinelF64 == [id |-> "System", type |-> "Normal", prob |-> f64_0_0, matched |-> 0]

\* get_ranking, with self.evidence iterated in the given order
get_ranking_f64(order) ==
    LET listed == RankLoopF64(Candidates(Elems(order)), order, 1, <<>>)
    IN  IF Len(listed) = 0 THEN <<SentinelF64>>
        ELSE SortByProbDescF64(listed, 1, <<>>)

(***************************************************************************)
(* self.evidence is a CPython set: it is iterated in the order of its hash *)
(* table.  An added element takes a free slot, anywhere among the others;  *)
(* when the table of 8 slots receives its fifth element it is rebuilt, and *)
(* the elements are placed anew.  String hashes differ from process to     *)
(* process, so every placement is an outcome.                              *)
(***************************************************************************)
SetResizeFill == 5

InsertAt(order, k, e) == SubSeq(order, 1, k) \o <<e>> \o SubSeq(order, k + 1, Len(order))

Orders(S) ==
    {o \in [1..Cardinality(S) -> S] : \A i, j \in 1..Cardinality(S) : o[i] = o[j] => i = j}

\* variant of set.add that keeps the elements in place when the table is rebuilt
set_add_NoRehash(order, e) ==
    IF e \in Elems(order) THEN {order}
    ELSE {InsertAt(order, k, e) : k \in 0..Len(order)}

\* the iteration orders of the set after set.add(e)
set_add(order, e) ==
    IF e \in Elems(order) THEN {order}
    ELSE IF Len(order) + 1 = SetResizeFill THEN Orders(Elems(order) \cup {e})
    ELSE {InsertAt(order, k, e) : k \in 0..Len(order)}

(***************************************************************************)
(* Floating-point specification: one BayesianRCA session                   *)
(***************************************************************************)
\* two symptoms of WAN_ROUTER_01 Config/Software, an alarm and a log line no
\* candidate expects, and a pair of a type no candidate expects
FloatPairs ==
    {Ev("alarm", str_BGP_Flapping), Ev("log", str_Config_Error),
     Ev("alarm", str_Link_Flap), Ev("log", str_Fan_Module_Failed), Ev("trap", str_Link_Flap)}

InitFloat ==
    /\ InitEngines(BayesTopology)
    /\ GOOGLE_API_KEY = FALSE

\* bayes.update_probabilities(type, value); last_update keeps the pair and what
\* get_ranking returned just before the call
UpdateProbabilitiesFloat ==
    \E e \in FloatPairs :
        /\ Cardinality(evidence \cup {e}) <= FloatMaxEvidence
        /\ evidence' = evidence \cup {e}
        /\ evidence_iter' \in set_add(evidence_iter, e)
        /\ last_update' = [pair |-> e, before |-> get_ranking_f64(evidence_iter)]
        /\ ranking' = <<>>
        /\ UNCHANGED <<session_state, topology_mtime, validation, topology, children_map, GOOGLE_API_KEY,
                       api_configured, alarms, results, analyze_calls, inference, cascade>>

\* bayes.get_ranking()
GetRankingFloat ==
    /\ ranking' = get_ranking_f64(evidence_iter)
    /\ UNCHANGED <<evidence_iter, session_state, topology_mtime, validation, topology, children_map, GOOGLE_API_KEY,
                   api_configured, alarms, results, analyze_calls, inference, cascade, evidence, last_update>>

NextFloat == UpdateProbabilitiesFloat \/ GetRankingFloat

SpecFloat == InitFloat /\ [][NextFloat]_vars

(***************************************************************************)
(* C29: evidence is monotone in BayesianRCA.  Adding an evidence pair via  *)
(* update_probabilities never lowers the prob that get_ranking reports for *)
(* any candidate (device, type), and never removes a non-sentinel          *)
(* candidate that was already listed; the "System/Normal" sentinel is      *)
(* returned if and only if no candidate scores above 0.1.                  *)
(***************************************************************************)
IsSentinelF64(entry) == entry.id = "System" /\ entry.type = "Normal"

\* get_ranking was called before and after the last update_probabilities
RankedAroundUpdate == ranking # <<>> /\ last_update # NoUpdate

NeverLowered ==
    \A i \in 1..Len(last_update.before) :
        LET b == last_update.before[i]
        IN  ~IsSentinelF64(b) =>
                \E j \in 1..Len(ranking) :
                    /\ ranking[j].id = b.id /\ ranking[j].type = b.type
                    /\ ~f64_gt(b.prob, ranking[j].prob)

NoCandidateAboveThreshold ==
    \A c \in Elems(Candidates(evidence)) :
        ~f64_gt(ScoreOfF64(c, evidence_iter).entry.prob, f64_0_1)

SentinelIffNothingScores ==
    (\E j \in 1..Len(ranking) : IsSentinelF64(ranking[j])) <=> NoCandidateAboveThreshold

C29_EvidenceMonotone ==
    /\ RankedAroundUpdate => NeverLowered
    /\ ranking # <<>> => SentinelIffNothingScores

\* the two halves of C29 that hold: no listed candidate is removed or lowered by
\* more than the rounding of one addition, and the sentinel
NeverRemoved ==
    \A i \in 1..Len(last_update.before) :
        LET b == last_update.before[i]
        IN  ~IsSentinelF64(b) =>
                \E j \in 1..Len(ranking) : ranking[j].id = b.id /\ ranking[j].type = b.type

C29_NeverRemovedAndSentinel ==
    /\ RankedAroundUpdate => NeverRemoved
    /\ ranking # <<>> => SentinelIffNothingScores
====
